---- MODULE Spec2Model ----
(***************************************************************************)
(* A model of the display-object core of pixi.js as it stands in this      *)
(* repository:                                                             *)
(*   - the event registry of src/src/core/display/DisplayObject.js         *)
(*     (on / once / removeListener / emit with the capture filter),        *)
(*   - the older registry of src/unnamed/part_000 ($on / on with the touch *)
(*     aliases / $removeListener / emit),                                  *)
(*   - the alpha / transform propagation of updateTransform and toGlobal.  *)
(*                                                                         *)
(* JavaScript values that may be undefined are modelled as the strings     *)
(* "undef", "true", "false" so that a strict comparison (===) between a    *)
(* boolean and undefined is an ordinary string comparison.                 *)
(***************************************************************************)
EXTENDS Integers, Sequences, FiniteSets, TLC

VARIABLES
    events,         \* this._events: event name -> absent | one listener | array
    em,             \* the emit call in progress or last finished (locals of emit)
    last,           \* the last registry call and its arguments
    err,            \* TRUE when the last call raised (TypeError)
    parent,         \* node -> parent node (Null = null)
    alpha,          \* node -> this.alpha
    worldAlpha,     \* node -> this.worldAlpha
    updateID,       \* node -> this._bounds.updateID
    position,       \* node -> local translation (this.transform.position.x)
    worldTransform, \* node -> world translation (this.transform.worldTransform.tx)
    pass,           \* nodes updated root-first since their chain's alpha last changed
    call,           \* the last scene-graph call: [op, node, dead (node was destroyed)]
    children,       \* node -> the nodes of its child list (container.children)
    destroyed,      \* node -> this._destroyed
    transform,      \* node -> this.transform: "own", "temp" (the temporary parent's) or "null"
    bounds,         \* node -> this._bounds: "own" or "null"
    mask,           \* node -> this._mask (a node or Null)
    filters,        \* node -> this._filters
    ret,            \* the container the last setParent returned (Null: none)
    lastBoundsID,   \* node -> this._lastBoundsID
    allowGetBounds, \* node -> this.allowGetBounds
    calculated,     \* TRUE when the last scene-graph call ran calculateBounds()
    rect,           \* the rectangle that call returned: "none", "EMPTY", "bounds"
                    \* (this._boundsRect), "localBounds" (this._localBoundsRect)
    point,          \* the point that call was given and the point it returned
    localBounds,    \* node -> the rectangle calculateBounds gives its local bounds
    hit,            \* what the last hitTest returned: "none", "true", "false"
    renderable,     \* node -> this.renderable
    isMask,         \* node -> this.isMask (FALSE while it is undefined)
    given,          \* the list last passed to the filters setter, as its caller holds it
    got,            \* the list the filters getter last returned, as its caller holds it
    pointX,         \* this._x of an ObservablePoint
    pointY,         \* this._y of that point
    fired,          \* the number of times the callback of that point was invoked
    write,          \* the last write to that point and its arguments
    points,         \* this.points of a RopeBitmap
    vertices,       \* this.vertices of that rope
    uvsSet,         \* whether this._texture._uvs of that rope is set
    equipments,     \* the nodes that are instances of chemical.core.BaseEquipment
    currentEq,      \* node -> this._currentEq_
    eq,             \* what the last read of currentEquipment returned
    self,           \* a Rectangle, the receiver of fit
    rectangle       \* the Rectangle passed to fit

evVars   == <<events, em, last>>
lifeVars == <<children, destroyed, transform, bounds, mask, filters, ret>>
cacheVars == <<lastBoundsID, allowGetBounds>>
maskVars == <<renderable, isMask>>
listVars == <<given, got>>
pointVars == <<pointX, pointY, fired, write>>
ropeVars == <<points, vertices, uvsSet>>
eqVars == <<equipments, currentEq, eq>>
fitVars == <<self, rectangle>>
moreVars == <<ropeVars, eqVars, fitVars>>
restVars == <<maskVars, listVars, pointVars, moreVars>>
otherVars == <<cacheVars, localBounds, restVars>>
graphVars == <<parent, alpha, worldAlpha, updateID, position, worldTransform, pass, call>>
resultVars == <<calculated, rect, point, hit>>
treeVars == <<graphVars, lifeVars, otherVars, resultVars>>
vars     == <<events, em, last, err, graphVars, lifeVars, otherVars, resultVars>>

----------------------------------------------------------------------------
(* Bounds of the model *)

MaxListeners == 3

MaxAliasListeners == 4

MaxAliasesInUse == 1

NumNodes == 3

MaxUpdateID == 2

----------------------------------------------------------------------------
(* Values *)

Handlers   == {"f", "g"}
Priorities == {0, 1}
Tri        == {"undef", "true", "false"}
EventNames == {"e1", "e2"}

\* The payloads a1 of emit: absent, a primitive (number, string), or an object
\* with an optional capture field and an optional stopImmediate flag.
Payloads ==
    {[kind |-> "undef", capture |-> "undef", stop |-> FALSE],
     [kind |-> "prim",  capture |-> "undef", stop |-> FALSE]}
    \cup [kind : {"obj"}, capture : Tri, stop : BOOLEAN]

NoStore == [kind |-> "none", ls |-> <<>>]

Single(l) == [kind |-> "single", ls |-> <<l>>]

List(ls) == [kind |-> "list", ls |-> ls]

\* function EE(fn, context, once): priority is not set (undefined), capture false
EE(fn, once) ==
    [fn |-> fn, once |-> once, capture |-> "false", useCapture |-> "undef",
     priority |-> 0, hasPriority |-> FALSE]

----------------------------------------------------------------------------
(* Array.prototype.sort with the comparator of on() *)

\* function(a, b) { return b.priority - a.priority; }  A missing priority gives
\* NaN, which sort treats as +0.
compare(a, b) ==
    IF a.hasPriority /\ b.hasPriority THEN b.priority - a.priority ELSE 0

Front(s) == SubSeq(s, 1, Len(s) - 1)

RECURSIVE InsertSorted(_, _)
InsertSorted(s, x) ==
    IF s = <<>> THEN <<x>>
    ELSE IF compare(s[Len(s)], x) > 0
         THEN Append(InsertSorted(Front(s), x), s[Len(s)])
         ELSE Append(s, x)

RECURSIVE StableSort(_)
StableSort(s) ==
    IF s = <<>> THEN <<>> ELSE InsertSorted(StableSort(Front(s)), s[Len(s)])

\* The comparator is consistent when every listener has a priority, or when
\* those that have one all have the same (every comparison is then 0).
ConsistentComparator(s) ==
    \/ \A i \in 1..Len(s) : s[i].hasPriority
    \/ \A i, j \in 1..Len(s) :
          (s[i].hasPriority /\ s[j].hasPriority) => s[i].priority = s[j].priority

Perms(s) ==
    {[i \in 1..Len(s) |-> s[p[i]]] : p \in Permutations(1..Len(s))}

\* The arrays sort may leave: the stable order for a consistent comparator, an
\* implementation-defined permutation otherwise.
sort(s) ==
    IF ConsistentComparator(s) THEN {StableSort(s)} ELSE Perms(s)

----------------------------------------------------------------------------
(* The registry of src/src/core/display/DisplayObject.js *)

\* The number of listeners in the registry.
Total(ev) ==
    Cardinality(UNION {{<<e, i>> : i \in 1..Len(ev[e].ls)} : e \in DOMAIN ev})

\* A reset that assigns the array of the kept listeners whatever its length
StoreArray(ls) == List(ls)

\* if (events.length) this._events[evt] = events.length === 1 ? events[0] : events;
\* else delete this._events[evt];
Store(ls) ==
    IF Len(ls) = 0 THEN NoStore ELSE IF Len(ls) = 1 THEN Single(ls[1]) ELSE List(ls)

\* new EE(fn, this) with listener.capture and listener.priority set by on()
OnListener(fn, capture, priority) ==
    [EE(fn, FALSE) EXCEPT !.capture = IF capture = "undef" THEN "false" ELSE capture,
                          !.priority = priority,
                          !.hasPriority = TRUE]

HasFn(ls, fn) == \E i \in 1..Len(ls) : ls[i].fn = fn

\* The values this._events[evt] may hold after on(evt, fn, capture, priority).
onStore(st, fn, capture, priority) ==
    LET listener == OnListener(fn, capture, priority) IN
    IF st.kind = "none" THEN {Single(listener)}
    ELSE IF st.kind = "list"
         THEN {List(s) : s \in sort(IF HasFn(st.ls, fn) THEN st.ls
                                    ELSE Append(st.ls, listener))}
         ELSE IF st.ls[1].fn # fn
              THEN {List(s) : s \in sort(<<st.ls[1], listener>>)}
              ELSE {st}

\* The value this._events[evt] holds after once(evt, fn).
onceStore(st, fn) ==
    LET listener == EE(fn, TRUE) IN
    IF st.kind = "none" THEN Single(listener)
    ELSE IF st.kind = "list" THEN List(Append(st.ls, listener))
         ELSE List(<<st.ls[1], listener>>)

\* !listener.capture, as the string of a boolean
NotCapture(l) == IF l.capture = "true" THEN "false" ELSE "true"

\* Keeps without the capture test (the filter of the stock emitter).
KeepsIgnoringCapture(l, fn, capture, once) ==
    \/ l.fn # fn
    \/ (once /\ ~l.once)

\* The test of removeListener under which a listener is kept.
Keeps(l, fn, capture, once) ==
    \/ l.fn # fn
    \/ (once /\ ~l.once)
    \/ NotCapture(l) = capture

\* removeListener(event) without fn falling through to the reset with no
\* listener kept: the key is deleted.
NoHandlerClears(st) == NoStore

\* removeListener(event) without fn: the early return that leaves the registry.
NoHandlerStore(st) == st

\* The value this._events[evt] holds after removeListener(evt, fn, capture, once);
\* fn = "undef" is the call without a handler.
removeListenerStore(st, fn, capture, once) ==
    IF st.kind = "none" THEN st
    ELSE IF fn = "undef" THEN NoHandlerStore(st)
         ELSE Store(SelectSeq(st.ls, LAMBDA l : Keeps(l, fn, capture, once)))

\* if (a1 && a1.capture === undefined && (typeof a1 === "object" || ...))
\*     a1.capture = false;
DefaultCapture(a1) ==
    IF a1.kind = "obj" /\ a1.capture = "undef" THEN [a1 EXCEPT !.capture = "false"]
    ELSE a1

\* emit without the capture filter.
FiresAnyCapture(l, a1) == TRUE

\* The capture filter of emit: whether the listener's fn is applied.
Fires(l, a1) ==
    IF a1.kind # "undef"
    THEN l.capture = a1.capture \/ a1.capture = "undef"
    ELSE TRUE

\* if (a1 && a1.stopImmediate === true) break;
Stopped(a1) == a1.kind = "obj" /\ a1.stop

\* A handler that is applied to an object payload may set stopImmediate on it.
AfterHandler(a1, called) ==
    IF called /\ a1.kind = "obj" THEN {a1, [a1 EXCEPT !.stop = TRUE]} ELSE {a1}

NoEmit ==
    [active |-> FALSE, evt |-> "e1", a0 |-> [kind |-> "undef", capture |-> "undef", stop |-> FALSE],
     a1 |-> [kind |-> "undef", capture |-> "undef", stop |-> FALSE],
     listeners |-> <<>>, i |-> 0, length |-> 0, calls |-> <<>>, stopped |-> <<>>,
     removals |-> <<>>, origin |-> <<>>, ret |-> "none"]

NoLast == [op |-> "none", evt |-> "e1", fn |-> "undef", capture |-> "undef",
           priority |-> 0, removed |-> 0]

on(event, fn, capture, priority) ==
    /\ ~em.active
    /\ \E st \in onStore(events[event], fn, capture, priority) :
          /\ events' = [events EXCEPT ![event] = st]
          /\ Total(events') <= MaxListeners
    /\ last' = [NoLast EXCEPT !.op = "on", !.evt = event]
    /\ em' = NoEmit
    /\ err' = FALSE
    /\ UNCHANGED treeVars

once(event, fn) ==
    /\ ~em.active
    /\ events' = [events EXCEPT ![event] = onceStore(events[event], fn)]
    /\ Total(events') <= MaxListeners
    /\ last' = [NoLast EXCEPT !.op = "once", !.evt = event]
    /\ em' = NoEmit
    /\ err' = FALSE
    /\ UNCHANGED treeVars

\* removeListener(event, fn, capture): the call of a user, the fourth argument
\* (once) omitted.
removeListener(event, fn, capture) ==
    /\ ~em.active
    /\ events' = [events EXCEPT
                    ![event] = removeListenerStore(events[event], fn, capture, FALSE)]
    /\ last' = [op |-> "removeListener", evt |-> event, fn |-> fn, capture |-> capture,
                priority |-> 0,
                removed |-> Len(events[event].ls) - Len(events'[event].ls)]
    /\ em' = NoEmit
    /\ err' = FALSE
    /\ UNCHANGED treeVars

\* emit(event, a1) up to the loop over an array of listeners; the whole call
\* when the event has no listener or a single one.
emit(event, a) ==
    /\ ~em.active
    /\ LET a1 == DefaultCapture(a)
           st == events[event]
           e0 == [NoEmit EXCEPT !.evt = event, !.a0 = a, !.a1 = a1,
                                !.listeners = st.ls, !.length = Len(st.ls)]
       IN IF st.kind = "none"
          THEN /\ em' = [e0 EXCEPT !.ret = "false"]
               /\ UNCHANGED events
          ELSE IF st.kind = "single"
          THEN LET l == st.ls[1]
                   called == Fires(l, a1)
               IN /\ events' = IF l.once
                               THEN [events EXCEPT ![event] =
                                       removeListenerStore(st, l.fn, "undef", TRUE)]
                               ELSE events
                  /\ \E p \in AfterHandler(a1, called) :
                        em' = [e0 EXCEPT !.a1 = p,
                                         !.calls = IF called THEN <<1>> ELSE <<>>,
                                         !.stopped = IF called THEN <<Stopped(a1)>> ELSE <<>>,
                                         !.i = 1,
                                         !.ret = "true"]
          ELSE /\ em' = [e0 EXCEPT !.active = TRUE, !.i = 1]
               /\ UNCHANGED events
    /\ last' = [NoLast EXCEPT !.op = "emit", !.evt = event]
    /\ err' = FALSE
    /\ UNCHANGED treeVars

\* One iteration of for (i = 0; i < length; i++) in emit, and the return after
\* the last one or after break.
emitStep ==
    /\ em.active
    /\ LET l == em.listeners[em.i]
           called == Fires(l, em.a1)
           more == em.i < em.length
       IN /\ events' = IF l.once
                       THEN [events EXCEPT ![em.evt] =
                               removeListenerStore(events[em.evt], l.fn, "undef", TRUE)]
                       ELSE events
          /\ IF Stopped(em.a1)
             THEN em' = [em EXCEPT !.active = FALSE, !.ret = "true"]
             ELSE \E p \in AfterHandler(em.a1, called) :
                     em' = [em EXCEPT !.a1 = p,
                                      !.calls = IF called THEN Append(@, em.i) ELSE @,
                                      !.stopped = IF called THEN Append(@, Stopped(em.a1)) ELSE @,
                                      !.i = em.i + 1,
                                      !.active = more,
                                      !.ret = IF more THEN "none" ELSE "true"]
    /\ UNCHANGED <<last, err, treeVars>>

\* this._filters: null, or a list of filters
NoFilters == [null |-> TRUE, items |-> <<>>]

FilterList(items) == [null |-> FALSE, items |-> items]

\* this._boundsID, which the constructor sets and nothing assigns afterwards
BoundsID == 0

\* this._lastBoundsID as the constructor sets it
NoBoundsID == -1

\* No point given, none returned.
NoPoint == [arg |-> 0, out |-> 0, skipUpdate |-> FALSE]

\* A call that is not getBounds or getLocalBounds returns no rectangle.
NoRect == calculated' = FALSE /\ rect' = "none"

\* A call that is not hitTest returns no verdict.
NoHit == hit' = "none"

\* A call that returns neither a rectangle, nor a point, nor a verdict.
NoResult == NoRect /\ point' = NoPoint /\ NoHit

\* A rectangle as its constructor leaves it.
EmptyRect == [x |-> 0, y |-> 0, width |-> 0, height |-> 0]

\* The bounds cache as the constructor leaves it.
CacheIdle ==
    /\ lastBoundsID = [n \in 1..NumNodes |-> NoBoundsID]
    /\ allowGetBounds = [n \in 1..NumNodes |-> TRUE]
    /\ calculated = FALSE
    /\ rect = "none"
    /\ point = NoPoint
    /\ hit = "none"

\* An argument that is left out (undefined).
Omitted == [given |-> FALSE, value |-> 0]

\* An argument that is the number v.
Arg(v) == [given |-> TRUE, value |-> v]

\* No write to the point yet.
NoWrite == [op |-> "none", x |-> Omitted, y |-> Omitted, nth |-> 0]

\* No list held by a caller of the filters accessors.
NoList == [node |-> 0, null |-> TRUE, items |-> <<>>, shared |-> FALSE]

\* this.points before setPoints: undefined.
NoPoints == [undefined |-> TRUE, list |-> <<>>]

\* A rope without points, its texture not loaded.
RopeIdle ==
    /\ points = NoPoints
    /\ vertices = <<>>
    /\ uvsSet = FALSE

\* this._currentEq_ before it is assigned: undefined.
NoEq == -1

\* No node is an equipment, no read of currentEquipment yet.
EqIdle ==
    /\ equipments = {}
    /\ currentEq = [n \in 1..NumNodes |-> NoEq]
    /\ eq = NoEq

\* Two rectangles as the constructor leaves them.
FitIdle ==
    /\ self = EmptyRect
    /\ rectangle = EmptyRect

\* The rope, the equipment caches and the rectangles as the constructors leave
\* them.
MoreIdle == RopeIdle /\ EqIdle /\ FitIdle

\* The mask flags, the callers' lists and the point as the constructors leave
\* them.
ViewIdle ==
    /\ renderable = [n \in 1..NumNodes |-> TRUE]
    /\ isMask = [n \in 1..NumNodes |-> FALSE]
    /\ given = NoList
    /\ got = NoList
    /\ pointX = 0
    /\ pointY = 0
    /\ fired = 0
    /\ write = NoWrite

\* The state outside the scene graph and the bounds cache as the constructors
\* leave it.
RestIdle == ViewIdle /\ MoreIdle

\* The rest of the nodes' state as the constructor leaves it.
OtherIdle == CacheIdle /\ RestIdle /\ localBounds = [n \in 1..NumNodes |-> EmptyRect]

\* What the constructor leaves in the fields destroy() writes.
LifeFields ==
    /\ children = [n \in 1..NumNodes |-> {}]
    /\ destroyed = [n \in 1..NumNodes |-> FALSE]
    /\ transform = [n \in 1..NumNodes |-> "own"]
    /\ bounds = [n \in 1..NumNodes |-> "own"]
    /\ mask = [n \in 1..NumNodes |-> 0]
    /\ filters = [n \in 1..NumNodes |-> NoFilters]
    /\ ret = 0

LifeIdle == OtherIdle /\ LifeFields

\* The scene graph as the constructors leave it.
TreeFields ==
    /\ parent = [n \in 1..NumNodes |-> 0]
    /\ alpha = [n \in 1..NumNodes |-> 1]
    /\ worldAlpha = [n \in 1..NumNodes |-> 1]
    /\ updateID = [n \in 1..NumNodes |-> 0]
    /\ position = [n \in 1..NumNodes |-> 0]
    /\ worldTransform = [n \in 1..NumNodes |-> 0]
    /\ pass = {}
    /\ call = [op |-> "none", node |-> 0, dead |-> FALSE]

TreeIdle == LifeIdle /\ TreeFields

\* An emitter without listeners, no call made.
EmitterIdle ==
    /\ events = [e \in EventNames |-> NoStore]
    /\ em = NoEmit
    /\ last = NoLast
    /\ err = FALSE

Init ==
    /\ events = [e \in EventNames |-> NoStore]
    /\ em = NoEmit
    /\ last = NoLast
    /\ err = FALSE
    /\ TreeIdle

Next ==
    \/ \E e \in EventNames, fn \in Handlers, c \in Tri, p \in Priorities : on(e, fn, c, p)
    \/ \E e \in EventNames, fn \in Handlers : once(e, fn)
    \/ \E e \in EventNames, fn \in Handlers \cup {"undef"}, c \in Tri :
          removeListener(e, fn, c)
    \/ \E e \in EventNames, a \in Payloads : emit(e, a)
    \/ emitStep

Spec == Init /\ [][Next]_vars

----------------------------------------------------------------------------
(* Claims about the registry of DisplayObject.js, checked under Spec *)

InCalls(k) == \E j \in 1..Len(em.calls) : em.calls[j] = k

EmitDone == ~em.active /\ em.ret = "true"

\* C2: for an emit whose payload carries a boolean capture c, a listener
\* registered through on() is never invoked when its capture flag differs from
\* c, and once the emit has returned without stopImmediate having been set, it
\* has been invoked when its flag equals c.
C2_CaptureFilter ==
    (em.a0.kind = "obj" /\ em.a0.capture # "undef") =>
        \A k \in 1..Len(em.listeners) :
            ~em.listeners[k].once =>
                /\ InCalls(k) => em.listeners[k].capture = em.a0.capture
                /\ (EmitDone /\ ~em.a1.stop /\ em.listeners[k].capture = em.a0.capture)
                       => InCalls(k)

\* An emit with capture = true over a list holding an on-listener of each flag
\* has returned: one was invoked, the other not.
C2_Witness ==
    /\ EmitDone
    /\ em.a0.kind = "obj" /\ em.a0.capture = "true" /\ ~em.a1.stop
    /\ Len(em.listeners) >= 2
    /\ \E j, k \in 1..Len(em.listeners) :
          /\ ~em.listeners[j].once /\ em.listeners[j].capture = "true" /\ InCalls(j)
          /\ ~em.listeners[k].once /\ em.listeners[k].capture = "false" /\ ~InCalls(k)

\* C3 (as claimed): an emit whose payload has no capture field, and on which
\* stopImmediate is never set, invokes every listener registered for the event.
C3_NoCaptureFiresAll ==
    (EmitDone /\ em.a0.kind # "undef" /\ em.a0.capture = "undef" /\ ~em.a1.stop) =>
        \A k \in 1..Len(em.listeners) : InCalls(k)

\* once() listeners count as priority 0
PriorityOf(l) == IF l.hasPriority THEN l.priority ELSE 0

\* C5 (as claimed): the listeners of every event are stored in non-increasing
\* priority order.
C5_SortedByPriority ==
    \A e \in DOMAIN events :
        \A i, j \in 1..Len(events[e].ls) :
            i < j => PriorityOf(events[e].ls[i]) >= PriorityOf(events[e].ls[j])

\* C6 (as claimed): a once() listener that an emit has taken out of the registry
\* has been invoked by that emit.
C6_OnceRemovedOnlyWhenInvoked ==
    last.op = "emit" =>
        \A k \in 1..Len(em.listeners) :
            (/\ em.listeners[k].once
             /\ ~\E j \in 1..Len(events[em.evt].ls) :
                    events[em.evt].ls[j] = em.listeners[k])
                => InCalls(k)

\* The listeners removeListener(event, fn, capture) is to leave: those whose
\* handler is not fn or, when capture is a boolean, whose flag differs from it.
Remaining(ls, fn, capture) ==
    SelectSeq(ls, LAMBDA l :
        ~(l.fn = fn /\ (capture \in {"true", "false"} => l.capture = capture)))

\* C7: removeListener(event, h, capture) leaves exactly the other listeners of
\* the event, in their order, leaves every other event alone, deletes the key
\* when none remains, and an emit of an event without key returns false.
C7_RemoveExact ==
    [][/\ (last'.op = "removeListener" /\ last'.fn # "undef") =>
             /\ events'[last'.evt].ls =
                    Remaining(events[last'.evt].ls, last'.fn, last'.capture)
             /\ events'[last'.evt].ls = <<>> => events'[last'.evt] = NoStore
             /\ \A e \in DOMAIN events : e # last'.evt => events'[e] = events[e]
       /\ (last'.op = "emit" /\ events[last'.evt] = NoStore /\ ~em.active) =>
             em'.ret = "false"]_vars

\* removeListener(event, h, true) has removed a listener of h and left another
\* listener of h, registered without capture, in place.
C7_Witness ==
    /\ last.op = "removeListener" /\ last.capture = "true" /\ last.removed >= 1
    /\ \E j \in 1..Len(events[last.evt].ls) :
          events[last.evt].ls[j].fn = last.fn /\ events[last.evt].ls[j].capture = "false"

\* C8: removeListener(event) called without a handler changes no listener of any
\* event.
C8_NoHandlerNoOp ==
    [][(last'.op = "removeListener" /\ last'.fn = "undef") => events' = events]_vars

\* removeListener(event) was called without a handler on an event that has
\* several listeners.
C8_Witness ==
    /\ last.op = "removeListener" /\ last.fn = "undef"
    /\ events[last.evt].kind = "list"

\* C9 (as claimed): no listener is invoked by an emit once stopImmediate is true
\* on its payload.
C9_StopHalts ==
    \A k \in 1..Len(em.stopped) : ~em.stopped[k]

----------------------------------------------------------------------------
(* The scene graph: updateTransform and toGlobal of DisplayObject.js *)

Null == 0

\* this._tempDisplayObjectParent, when getBounds has left it in this.parent
TempParent == -1

Nodes == 1..NumNodes

Alphas == {0, 1, 2}

\* The node and its ancestors, up to the root.
RECURSIVE Chain(_)
Chain(n) == IF parent[n] \notin Nodes THEN {n} ELSE {n} \cup Chain(parent[n])

\* The nodes whose chain holds n.
Subtree(n) == {m \in Nodes : n \in Chain(m)}

\* get _tempDisplayObjectParent: a new DisplayObject, as its constructor leaves it
tempDisplayObjectParent == [worldAlpha |-> 1, worldTransform |-> 0]

\* Transform.updateTransform(parentTransform): world = local composed with the
\* parent's world (translations only).
TransformUpdate(local, parentWorld) == local + parentWorld

\* this.alpha alone, the parent's worldAlpha forgotten
WorldAlphaOwn(a, parentWorldAlpha) == a

\* this.worldAlpha = this.alpha * this.parent.worldAlpha;
WorldAlphaOf(a, parentWorldAlpha) == a * parentWorldAlpha

\* An update that reads the temporary parent whatever this.parent is
ParentViewTemporary(n) == tempDisplayObjectParent

\* What updateTransform reads of this.parent.
ParentView(n) ==
    IF parent[n] \notin Nodes THEN tempDisplayObjectParent
    ELSE [worldAlpha |-> worldAlpha[parent[n]],
          worldTransform |-> worldTransform[parent[n]]]

\* A call that leaves the temporary parent in this.parent
leftTemporary(n) == IF parent[n] = Null THEN TempParent ELSE parent[n]

\* this.parent after the update of a call that returns: a node without parent
\* is given the temporary parent for the update, then this.parent = null; the
\* parent of another node is not assigned.
unparented(n) == IF parent[n] = Null THEN Null ELSE parent[n]

\* A refresh that reads the world translation the parent had before the call
StaleUpdated(n) == TransformUpdate(position[n], ParentView(n).worldTransform)

\* The world translation _recursivePostUpdateTransform leaves on n.
RECURSIVE PostUpdated(_)
PostUpdated(n) ==
    IF parent[n] \notin Nodes
    THEN TransformUpdate(position[n], tempDisplayObjectParent.worldTransform)
    ELSE TransformUpdate(position[n], PostUpdated(parent[n]))

\* Nodes updated after their parent, root first, since the alphas of their
\* chain last changed.
PassAfter(n) ==
    IF parent[n] \notin Nodes \/ parent[n] \in pass THEN pass \cup {n} ELSE pass \ {n}

\* this.alpha = a  (a public field)
setAlpha(n, a) ==
    /\ alpha' = [alpha EXCEPT ![n] = a]
    /\ pass' = pass \ Subtree(n)
    /\ call' = [op |-> "setAlpha", node |-> n, dead |-> destroyed[n]]
    /\ NoResult
    /\ err' = FALSE
    /\ UNCHANGED <<parent, worldAlpha, updateID, position, worldTransform, evVars, lifeVars,
                   otherVars>>

\* updateTransform(): with parent null, this.parent.transform raises TypeError
\* before anything is written; so does this.transform.updateTransform once
\* destroy() has set this.transform to null. The world transform written is
\* that of the object this.transform refers to.
updateTransform(n) ==
    /\ updateID[n] < MaxUpdateID
    /\ call' = [op |-> "updateTransform", node |-> n, dead |-> destroyed[n]]
    /\ NoResult
    /\ IF parent[n] = Null \/ transform[n] = "null"
       THEN /\ err' = TRUE
            /\ UNCHANGED <<worldTransform, worldAlpha, updateID, pass>>
       ELSE /\ err' = FALSE
            /\ worldTransform' = IF transform[n] = "own"
                    THEN [worldTransform EXCEPT ![n] =
                            TransformUpdate(position[n], ParentView(n).worldTransform)]
                    ELSE worldTransform
            /\ worldAlpha' = [worldAlpha EXCEPT ![n] =
                    WorldAlphaOf(alpha[n], ParentView(n).worldAlpha)]
            /\ updateID' = [updateID EXCEPT ![n] = @ + 1]
            /\ pass' = PassAfter(n)
    /\ UNCHANGED <<parent, alpha, position, evVars, lifeVars, otherVars>>

\* Matrix.apply(pos): the point under the world transform (translations only)
apply(world, pos) == pos + world

\* An inverse that translates the same way as apply
applyInverseForward(world, pos) == pos + world

\* Matrix.applyInverse(pos): the point under the inverse of the world transform
applyInverse(world, pos) == pos - world

\* toGlobal(position, point, skipUpdate): _recursivePostUpdateTransform, then
\* displayObjectUpdateTransform (= updateTransform) under the parent or, for a
\* root, under the temporary parent; the point is mapped by the world transform.
toGlobal(n, pos, skipUpdate) ==
    /\ call' = [op |-> "toGlobal", node |-> n, dead |-> destroyed[n]]
    /\ NoRect
    /\ NoHit
    /\ err' = FALSE
    /\ IF skipUpdate
       THEN UNCHANGED <<parent, worldTransform, worldAlpha, updateID, pass>>
       ELSE /\ updateID[n] < MaxUpdateID
            /\ parent' = [parent EXCEPT ![n] = unparented(n)]
            /\ worldTransform' = [m \in Nodes |->
                    IF m \in Chain(n) THEN PostUpdated(m) ELSE worldTransform[m]]
            /\ worldAlpha' = [worldAlpha EXCEPT ![n] =
                    WorldAlphaOf(alpha[n], ParentView(n).worldAlpha)]
            /\ updateID' = [updateID EXCEPT ![n] = @ + 1]
            /\ pass' = PassAfter(n)
    /\ point' = [arg |-> pos, out |-> apply(worldTransform'[n], pos),
                 skipUpdate |-> skipUpdate]
    /\ UNCHANGED <<alpha, position, evVars, lifeVars, otherVars>>

\* toLocal(position, from, point, skipUpdate): from.toGlobal(position, point,
\* skipUpdate) when from is given, then the same refresh as toGlobal on this
\* node; the point is mapped by the inverse of the world transform.
toLocal(n, pos, from, skipUpdate) ==
    LET fromUpd == from # Null /\ ~skipUpdate
        tx1     == IF fromUpd
                   THEN [m \in Nodes |->
                           IF m \in Chain(from) THEN PostUpdated(m)
                           ELSE worldTransform[m]]
                   ELSE worldTransform
        alpha1  == IF fromUpd
                   THEN [worldAlpha EXCEPT ![from] =
                           WorldAlphaOf(alpha[from], ParentView(from).worldAlpha)]
                   ELSE worldAlpha
        id1     == IF fromUpd THEN [updateID EXCEPT ![from] = @ + 1] ELSE updateID
        pass1   == IF fromUpd THEN PassAfter(from) ELSE pass
        global  == IF from = Null THEN pos ELSE apply(tx1[from], pos)
        parentAlpha == IF parent[n] \notin Nodes
                       THEN tempDisplayObjectParent.worldAlpha
                       ELSE alpha1[parent[n]]
    IN /\ call' = [op |-> "toLocal", node |-> n, dead |-> destroyed[n]]
       /\ NoRect
       /\ NoHit
       /\ err' = FALSE
       /\ IF skipUpdate
          THEN UNCHANGED <<parent, worldTransform, worldAlpha, updateID, pass>>
          ELSE /\ from # Null => updateID[from] < MaxUpdateID
               /\ parent' = [m \in Nodes |->
                       IF m \in {n, from} THEN unparented(m) ELSE parent[m]]
               /\ id1[n] < MaxUpdateID
               /\ worldTransform' = [m \in Nodes |->
                       IF m \in Chain(n) THEN PostUpdated(m) ELSE tx1[m]]
               /\ worldAlpha' = [alpha1 EXCEPT ![n] = WorldAlphaOf(alpha[n], parentAlpha)]
               /\ updateID' = [id1 EXCEPT ![n] = @ + 1]
               /\ pass' = IF parent[n] \notin Nodes \/ parent[n] \in pass1
                          THEN pass1 \cup {n} ELSE pass1 \ {n}
       /\ point' = [arg |-> pos, out |-> applyInverse(worldTransform'[n], global),
                    skipUpdate |-> skipUpdate]
       /\ UNCHANGED <<alpha, position, evVars, lifeVars, otherVars>>

\* this.position.x = x: the local translation of node n
setPosition(n, x) ==
    /\ position' = [position EXCEPT ![n] = x]
    /\ call' = [op |-> "setPosition", node |-> n, dead |-> destroyed[n]]
    /\ NoResult
    /\ err' = FALSE
    /\ UNCHANGED <<parent, alpha, worldAlpha, updateID, worldTransform, pass, evVars,
                   lifeVars, otherVars>>

\* The points given to toGlobal in the specification of the alphas.
TreePoints == {0}

\* The trees of NumNodes nodes, each node under a node built before it or under
\* none; no listener registered.
InitTree ==
    /\ OtherIdle
    /\ parent \in {f \in [Nodes -> {Null} \cup Nodes] : \A n \in Nodes : f[n] < n}
    /\ alpha = [n \in Nodes |-> 1]
    /\ worldAlpha = [n \in Nodes |-> 1]
    /\ updateID = [n \in Nodes |-> 0]
    /\ position = [n \in Nodes |-> 0]
    /\ worldTransform = [n \in Nodes |-> 0]
    /\ pass = {}
    /\ call = [op |-> "none", node |-> Null, dead |-> FALSE]
    /\ children = [c \in Nodes |-> {n \in Nodes : parent[n] = c}]
    /\ destroyed = [n \in Nodes |-> FALSE]
    /\ transform = [n \in Nodes |-> "own"]
    /\ bounds = [n \in Nodes |-> "own"]
    /\ mask = [n \in Nodes |-> Null]
    /\ filters = [n \in Nodes |-> NoFilters]
    /\ ret = Null
    /\ events = [e \in EventNames |-> NoStore]
    /\ em = NoEmit
    /\ last = NoLast
    /\ err = FALSE

NextTree ==
    \/ \E n \in Nodes, a \in Alphas : setAlpha(n, a)
    \/ \E n \in Nodes : updateTransform(n)
    \/ \E n \in Nodes, pos \in TreePoints, skipUpdate \in BOOLEAN :
          toGlobal(n, pos, skipUpdate)

SpecTree == InitTree /\ [][NextTree]_vars

\* The product of the alphas on the chain from the root to n.
RECURSIVE AlphaProduct(_)
AlphaProduct(n) ==
    IF parent[n] \notin Nodes THEN alpha[n] ELSE alpha[n] * AlphaProduct(parent[n])

\* C1: every node updated after its parent, root first, has worldAlpha equal to
\* the product of the alphas from the root down to it; and right after
\* node.updateTransform(), worldAlpha = alpha * parent.worldAlpha.
C1_WorldAlphaProduct ==
    /\ \A n \in pass : worldAlpha[n] = AlphaProduct(n)
    /\ (call.op = "updateTransform" /\ ~err) =>
          worldAlpha[call.node] = alpha[call.node] * worldAlpha[parent[call.node]]

\* A chain of three nodes, none of alpha 1, has been updated top-down, the last
\* by updateTransform.
C1_Witness ==
    /\ pass = Nodes
    /\ \A n \in Nodes : parent[n] = n - 1 /\ alpha[n] = 2
    /\ call.op = "updateTransform" /\ call.node = NumNodes
    /\ worldAlpha[NumNodes] > 2

----------------------------------------------------------------------------
(* The registry of src/unnamed/part_000: $on, on, $removeListener,         *)
(* removeListener and emit, with the touch aliases                         *)

\* The alias names, as test/index.js spells them on TouchEvent, and TAP.
TouchEvent ==
    [TOUCH_BEGIN |-> "TOUCH_BEGIN", TOUCH_MOVE |-> "TOUCH_MOVE",
     TOUCH_END |-> "TOUCH_END", TAP |-> "TAP",
     TOUCH_END_OUTSIDE |-> "TOUCH_END_OUTSIDE"]

\* TouchEvent.TOUCH_END_OUDSIDE, the name on() and removeListener() read: it is
\* no property of TouchEvent, so it is undefined and equals no event name.
TOUCH_END_OUDSIDE == "undefined"

Aliases ==
    {TouchEvent.TOUCH_BEGIN, TouchEvent.TOUCH_MOVE, TouchEvent.TOUCH_END,
     TouchEvent.TAP, TouchEvent.TOUCH_END_OUTSIDE}

\* The two primitive events each alias stands for.
Underlying(alias) ==
    IF alias = TouchEvent.TOUCH_BEGIN THEN <<"mousedown", "touchstart">>
    ELSE IF alias = TouchEvent.TOUCH_MOVE THEN <<"mousemove", "touchmove">>
    ELSE IF alias = TouchEvent.TOUCH_END THEN <<"mouseup", "touchend">>
    ELSE IF alias = TouchEvent.TAP THEN <<"click", "tap">>
    ELSE <<"mouseupoutside", "touchendoutside">>

Primitives == UNION {{Underlying(a)[1], Underlying(a)[2]} : a \in Aliases}

EventNames000 == Aliases \cup Primitives

\* The event names the if-chain of on() and removeListener() passes on to $on
\* and $removeListener.
FanOut(event) ==
    IF event = TouchEvent.TOUCH_BEGIN THEN <<"mousedown", "touchstart">>
    ELSE IF event = TouchEvent.TOUCH_MOVE THEN <<"mousemove", "touchmove">>
    ELSE IF event = TouchEvent.TOUCH_END THEN <<"mouseup", "touchend">>
    ELSE IF event = TouchEvent.TAP THEN <<"click", "tap">>
    ELSE IF event = TOUCH_END_OUDSIDE THEN <<"mouseupoutside", "touchendoutside">>
    ELSE <<event>>

\* The aliases under one of whose names a listener is registered.
AliasesInUse(ev) ==
    {a \in Aliases : \E i \in 1..Len(FanOut(a)) : ev[FanOut(a)[i]].kind # "none"}

\* new EE(fn, this) with listener.useCapture and listener.priority set by $on;
\* listener.capture stays false.
DollarOnListener(fn, useCapture, priority) ==
    [EE(fn, FALSE) EXCEPT !.useCapture = useCapture,
                          !.priority = priority,
                          !.hasPriority = TRUE]

\* $on calls this._events[evt].sort after the registration; a single listener
\* whose fn is the one registered stays an EE object, which has no sort.
dollarOnThrows(st, fn) == st.kind = "single" /\ st.ls[1].fn = fn

\* The values this._events[evt] may hold after $on(evt, fn, useCapture, priority).
dollarOnStore(st, fn, useCapture, priority) ==
    LET listener == DollarOnListener(fn, useCapture, priority) IN
    IF st.kind = "none" THEN {Single(listener)}
    ELSE IF st.kind = "list"
         THEN {List(s) : s \in sort(IF HasFn(st.ls, fn) THEN st.ls
                                    ELSE Append(st.ls, listener))}
         ELSE IF st.ls[1].fn # fn
              THEN {List(s) : s \in sort(<<st.ls[1], listener>>)}
              ELSE {st}

\* The test of $removeListener under which a listener is kept; every listener
\* of $on has context this.
Keeps000(l, fn, context, once_) ==
    \/ l.fn # fn
    \/ (once_ /\ ~l.once)
    \/ (context # "undef" /\ context # "this")

\* The value this._events[evt] holds after $removeListener(evt, fn, context, once).
dollarRemoveListenerStore(st, fn, context, once_) ==
    IF st.kind = "none" THEN st
    ELSE IF fn = "undef" THEN st
         ELSE Store(SelectSeq(st.ls, LAMBDA l : Keeps000(l, fn, context, once_)))

\* on(event, fn, useCapture, priority) of part_000: $on under each name of the
\* fan-out, in turn; a TypeError of $on ends the call.
on000(event, fn, useCapture, priority) ==
    /\ ~em.active
    /\ LET names == FanOut(event)
           first == names[1]
       IN IF dollarOnThrows(events[first], fn)
          THEN err' = TRUE /\ UNCHANGED events
          ELSE \E st1 \in dollarOnStore(events[first], fn, useCapture, priority) :
                 LET ev1 == [events EXCEPT ![first] = st1] IN
                 IF Len(names) = 1
                 THEN err' = FALSE /\ events' = ev1
                 ELSE IF dollarOnThrows(ev1[names[2]], fn)
                      THEN err' = TRUE /\ events' = ev1
                      ELSE /\ err' = FALSE
                           /\ \E st2 \in dollarOnStore(ev1[names[2]], fn, useCapture, priority) :
                                 events' = [ev1 EXCEPT ![names[2]] = st2]
    /\ Total(events') <= MaxAliasListeners
    /\ Cardinality(AliasesInUse(events')) <= MaxAliasesInUse
    /\ last' = [NoLast EXCEPT !.op = "on", !.evt = event, !.fn = fn,
                              !.capture = useCapture, !.priority = priority]
    /\ em' = NoEmit
    /\ UNCHANGED treeVars

\* removeListener that passes only the first name of the fan-out on to
\* $removeListener
removeListener000FirstOnly(event, fn, context) ==
    /\ ~em.active
    /\ events' = [events EXCEPT ![FanOut(event)[1]] =
                     dollarRemoveListenerStore(@, fn, context, FALSE)]
    /\ last' = [NoLast EXCEPT !.op = "removeListener", !.evt = event, !.fn = fn,
                              !.removed = Total(events) - Total(events')]
    /\ em' = NoEmit
    /\ err' = FALSE
    /\ UNCHANGED treeVars

\* removeListener(event, fn, context) of part_000: $removeListener under each
\* name of the fan-out.
removeListener000(event, fn, context) ==
    /\ ~em.active
    /\ LET names == FanOut(event)
           ev1 == [events EXCEPT ![names[1]] =
                      dollarRemoveListenerStore(events[names[1]], fn, context, FALSE)]
       IN events' = IF Len(names) = 1 THEN ev1
                    ELSE [ev1 EXCEPT ![names[2]] =
                            dollarRemoveListenerStore(ev1[names[2]], fn, context, FALSE)]
    /\ last' = [NoLast EXCEPT !.op = "removeListener", !.evt = event, !.fn = fn,
                              !.removed = Total(events) - Total(events')]
    /\ em' = NoEmit
    /\ err' = FALSE
    /\ UNCHANGED treeVars

\* The filter of emit on a single listener: listeners.capture === a1.capture
Fires000Single(l, a1) ==
    IF a1.kind # "undef" THEN l.capture = a1.capture ELSE TRUE

\* The filter of emit in the loop: listeners[i].useCapture === a1.capture
Fires000(l, a1) ==
    IF a1.kind # "undef" THEN l.useCapture = a1.capture ELSE TRUE

\* emit(event, a1) of part_000 up to the loop over an array of listeners; the
\* whole call when the event has no listener or a single one.
emit000(event, a1) ==
    /\ ~em.active
    /\ LET st == events[event]
           e0 == [NoEmit EXCEPT !.evt = event, !.a0 = a1, !.a1 = a1,
                                !.listeners = st.ls, !.length = Len(st.ls)]
       IN IF st.kind = "none"
          THEN /\ em' = [e0 EXCEPT !.ret = "false"]
               /\ UNCHANGED events
          ELSE IF st.kind = "single"
          THEN LET l == st.ls[1]
                   called == Fires000Single(l, a1)
               IN /\ events' = IF l.once
                               THEN [events EXCEPT ![event] =
                                       dollarRemoveListenerStore(st, l.fn, "undef", TRUE)]
                               ELSE events
                  /\ \E p \in AfterHandler(a1, called) :
                        em' = [e0 EXCEPT !.a1 = p,
                                         !.calls = IF called THEN <<1>> ELSE <<>>,
                                         !.stopped = IF called THEN <<Stopped(a1)>> ELSE <<>>,
                                         !.i = 1,
                                         !.ret = "true"]
          ELSE /\ em' = [e0 EXCEPT !.active = TRUE, !.i = 1]
               /\ UNCHANGED events
    /\ last' = [NoLast EXCEPT !.op = "emit", !.evt = event]
    /\ err' = FALSE
    /\ UNCHANGED treeVars

\* One iteration of the loop of emit of part_000, and the return after the last
\* one or after break.
emitStep000 ==
    /\ em.active
    /\ LET l == em.listeners[em.i]
           called == Fires000(l, em.a1)
           more == em.i < em.length
       IN /\ events' = IF l.once
                       THEN [events EXCEPT ![em.evt] =
                               dollarRemoveListenerStore(events[em.evt], l.fn, "undef", TRUE)]
                       ELSE events
          /\ IF Stopped(em.a1)
             THEN em' = [em EXCEPT !.active = FALSE, !.ret = "true"]
             ELSE \E p \in AfterHandler(em.a1, called) :
                     em' = [em EXCEPT !.a1 = p,
                                      !.calls = IF called THEN Append(@, em.i) ELSE @,
                                      !.stopped = IF called THEN Append(@, Stopped(em.a1)) ELSE @,
                                      !.i = em.i + 1,
                                      !.active = more,
                                      !.ret = IF more THEN "none" ELSE "true"]
    /\ UNCHANGED <<last, err, treeVars>>

\* The payloads of emit in this specification: absent, or an object with an
\* optional capture field; stopImmediate set beforehand on one of them.
Payloads000 ==
    {[kind |-> "undef", capture |-> "undef", stop |-> FALSE],
     [kind |-> "obj", capture |-> "undef", stop |-> TRUE]}
    \cup [kind : {"obj"}, capture : Tri, stop : {FALSE}]

\* The events emitted in this specification: those with a listener, and click.
Emitted000 == {e \in EventNames000 : events[e].kind # "none"} \cup {"click"}

InitAlias ==
    /\ events = [e \in EventNames000 |-> NoStore]
    /\ em = NoEmit
    /\ last = NoLast
    /\ err = FALSE
    /\ TreeIdle

NextAlias ==
    \/ \E e \in Aliases, fn \in Handlers, c \in Tri, p \in Priorities :
          on000(e, fn, c, p)
    \/ \E e \in Aliases, fn \in Handlers \cup {"undef"}, context \in {"undef", "this"} :
          removeListener000(e, fn, context)
    \/ \E e \in Emitted000, a \in Payloads000 : emit000(e, a)
    \/ emitStep000

SpecAlias == InitAlias /\ [][NextAlias]_vars

----------------------------------------------------------------------------
(* Claims checked under SpecAlias                                          *)

\* C4 (as claimed): no event's listener store holds two entries with the same
\* handler, and no call of on() raises an error, whether the event holds a
\* single listener or a list when the handler is registered again.
C4_NoDuplicateNoError ==
    /\ \A e \in DOMAIN events :
          \A i, j \in 1..Len(events[e].ls) :
              events[e].ls[i].fn = events[e].ls[j].fn => i = j
    /\ (last.op = "on" => ~err)

\* The entries of handler fn in the store of event name e.
EntriesOf(e, fn) == {k \in 1..Len(events[e].ls) : events[e].ls[k].fn = fn}

\* The number of times emit has invoked the k-th listener of its snapshot.
TimesCalled(k) == Cardinality({j \in 1..Len(em.calls) : em.calls[j] = k})

\* C10 (as claimed): after on(alias, h, capture, priority), h is registered
\* under both underlying event names of the alias with the same capture flag
\* and priority, and an emit of an underlying event whose payload is absent or
\* an object without a capture field invokes every registered handler exactly
\* once.
C10_AliasBothNamesOnce ==
    /\ (last.op = "on" /\ ~err) =>
          LET names == Underlying(last.evt) IN
          /\ \A i \in 1..2 : EntriesOf(names[i], last.fn) # {}
          /\ \A k1 \in EntriesOf(names[1], last.fn), k2 \in EntriesOf(names[2], last.fn) :
                /\ events[names[1]].ls[k1].useCapture = events[names[2]].ls[k2].useCapture
                /\ events[names[1]].ls[k1].priority = events[names[2]].ls[k2].priority
    /\ (EmitDone /\ em.evt \in Primitives /\ em.a0.capture = "undef" /\ ~em.a1.stop) =>
          \A k \in 1..Len(em.listeners) : TimesCalled(k) = 1

\* C11: after removeListener(alias, h) for one of the five aliases, h is
\* registered under neither of the two underlying event names of the alias.
C11_AliasRemovedFromBoth ==
    (last.op = "removeListener" /\ last.evt \in Aliases /\ last.fn # "undef") =>
        \A i \in 1..2 : EntriesOf(Underlying(last.evt)[i], last.fn) = {}

\* removeListener(TAP, h) has removed h from click and from tap, with another
\* handler left registered under both.
C11_Witness ==
    /\ last.op = "removeListener" /\ last.evt = TouchEvent.TAP
    /\ last.fn # "undef" /\ last.removed = 2
    /\ events["click"].kind = "single" /\ events["tap"].kind = "single"

----------------------------------------------------------------------------
(* The lifecycle of src/src/core/display/DisplayObject.js: setParent,      *)
(* destroy, and the reads of a destroyed node                              *)

\* The nodes that are Containers (they expose addChild and removeChild); the
\* last node is a plain DisplayObject.
Containers == 1..(NumNodes - 1)

\* The node whose listener registry is events.
Subject == NumNodes

\* The values passed to setParent: null, a Container, a plain DisplayObject.
SetParentArgs == {Null} \cup Nodes

\* A container that is null only, whatever it exposes
NotAContainerNullOnly(c) == c = Null

\* !container || !container.addChild
NotAContainer(c) == c = Null \/ c \notin Containers

\* Container.addChild(child), on the child lists: the child leaves the list it
\* is in and joins the container's.
ChildrenAfterAdd(c, n) ==
    [d \in Nodes |-> IF d = c THEN children[d] \cup {n} ELSE children[d] \ {n}]

\* Container.removeChild(child), on the child lists.
ChildrenAfterRemove(c, n) == [children EXCEPT ![c] = @ \ {n}]

\* setParent(container) on node n; a container under n itself is left out
\* (the child lists stay a forest).
setParent(n, c) ==
    /\ ~NotAContainer(c) => c \notin Subtree(n)
    /\ call' = [op |-> "setParent", node |-> n, dead |-> destroyed[n]]
    /\ NoResult
    /\ IF NotAContainer(c)
       THEN /\ err' = TRUE
            /\ ret' = Null
            /\ UNCHANGED <<parent, children, pass>>
       ELSE /\ err' = FALSE
            /\ ret' = c
            /\ parent' = [parent EXCEPT ![n] = c]
            /\ children' = ChildrenAfterAdd(c, n)
            /\ pass' = pass \ Subtree(n)
    /\ UNCHANGED <<alpha, worldAlpha, updateID, position, worldTransform, evVars,
                   destroyed, transform, bounds, mask, filters, otherVars>>

\* A list handed over as it is: the caller holds the list the node holds
noSlice(list, n) ==
    IF list.null THEN NoList
    ELSE [node |-> n, null |-> FALSE, items |-> list.items, shared |-> TRUE]

\* list && list.slice(), seen from the caller: null is no list; otherwise the
\* caller and the node hold two lists of the same items in the same order.
slice(list, n) ==
    IF list.null THEN NoList
    ELSE [node |-> n, null |-> FALSE, items |-> list.items, shared |-> FALSE]

\* A list held by a caller once node n holds another list: no longer shared.
Detached(held, n) == IF held.node = n THEN [held EXCEPT !.shared = FALSE] ELSE held

\* this.filters = value: null stays null, a list is copied
setFilters(n, value) ==
    /\ filters' = [filters EXCEPT ![n] =
                     IF value.null THEN NoFilters ELSE FilterList(value.items)]
    /\ given' = slice(value, n)
    /\ got' = Detached(got, n)
    /\ call' = [op |-> "setFilters", node |-> n, dead |-> destroyed[n]]
    /\ NoResult
    /\ err' = FALSE
    /\ ret' = Null
    /\ UNCHANGED <<parent, alpha, worldAlpha, updateID, position, worldTransform, pass,
                   evVars, children, destroyed, transform, bounds, mask, cacheVars,
                   localBounds, maskVars, pointVars, moreVars>>

\* get filters: this._filters && this._filters.slice()
getFilters(n) ==
    /\ got' = slice(filters[n], n)
    /\ call' = [op |-> "getFilters", node |-> n, dead |-> destroyed[n]]
    /\ NoResult
    /\ err' = FALSE
    /\ ret' = Null
    /\ UNCHANGED <<parent, alpha, worldAlpha, updateID, position, worldTransform, pass,
                   evVars, lifeVars, given, cacheVars, localBounds, maskVars, pointVars, moreVars>>

\* destroy() that calls this.transform.destroy() without testing this.transform
destroyThrowsUnguarded(n) == parent[n] = TempParent \/ transform[n] = "null"

\* destroy() raises when this.parent is an object without removeChild: the
\* temporary parent, a plain DisplayObject.
destroyThrows(n) == parent[n] = TempParent

\* removeAllListeners() on the registry of node n
removeAllListeners(n) ==
    IF n = Subject THEN [e \in DOMAIN events |-> NoStore] ELSE events

\* destroy() on node n
destroy(n) ==
    /\ ~em.active
    /\ call' = [op |-> "destroy", node |-> n, dead |-> destroyed[n]]
    /\ NoResult
    /\ ret' = Null
    /\ events' = removeAllListeners(n)
    /\ IF destroyThrows(n)
       THEN /\ err' = TRUE
            /\ UNCHANGED <<parent, children, transform, bounds, mask, destroyed, pass>>
       ELSE /\ err' = FALSE
            /\ children' = IF parent[n] \in Nodes
                           THEN ChildrenAfterRemove(parent[n], n) ELSE children
            /\ parent' = [parent EXCEPT ![n] = Null]
            /\ transform' = [transform EXCEPT ![n] = "null"]
            /\ bounds' = [bounds EXCEPT ![n] = "null"]
            /\ mask' = [mask EXCEPT ![n] = Null]
            /\ destroyed' = [destroyed EXCEPT ![n] = TRUE]
            /\ pass' = pass \ Subtree(n)
    /\ em' = NoEmit
    /\ last' = NoLast
    /\ UNCHANGED <<alpha, worldAlpha, updateID, position, worldTransform, filters,
                   otherVars>>

\* get worldTransform: this.transform.worldTransform
readWorldTransform(n) ==
    /\ call' = [op |-> "worldTransform", node |-> n, dead |-> destroyed[n]]
    /\ NoResult
    /\ err' = (transform[n] = "null")
    /\ ret' = Null
    /\ UNCHANGED <<parent, alpha, worldAlpha, updateID, position, worldTransform, pass,
                   evVars, children, destroyed, transform, bounds, mask, filters,
                   otherVars>>

\* The nodes of the chain of n whose transform _recursivePostUpdateTransform
\* reaches: those with no destroyed transform from the root down to them.
Refreshed(n) == {m \in Chain(n) : \A k \in Chain(m) : transform[k] # "null"}

\* calculateBounds() that returns, on the cache: the subclass of the node
\* fills this._bounds and records the version it calculated for.
calculateBounds(n) == [lastBoundsID EXCEPT ![n] = BoundsID]

\* this._boundsID !== this._lastBoundsID
Stale(n) == BoundsID # lastBoundsID[n]

\* A getBounds that goes on when allowGetBounds is false
AllowedAlways(n) == TRUE

\* allowGetBounds === false returns Rectangle.EMPTY before anything else
Allowed(n) == allowGetBounds[n]

\* getBounds(skipUpdate, rect) on node n; calculateBounds, which the subclass
\* of the node supplies, returns or raises when it runs, and raises when
\* destroy() has set the _bounds it fills to null.
getBounds(n, skipUpdate, raises) ==
    /\ call' = [op |-> "getBounds", node |-> n, dead |-> destroyed[n]]
    /\ ret' = Null
    /\ point' = NoPoint
    /\ NoHit
    /\ UNCHANGED <<alpha, position, evVars, children, destroyed, transform, bounds,
                   mask, filters, allowGetBounds, localBounds, restVars>>
    /\ IF ~Allowed(n)
       THEN /\ err' = FALSE
            /\ rect' = "EMPTY"
            /\ calculated' = FALSE
            /\ UNCHANGED <<parent, worldTransform, worldAlpha, updateID, pass,
                           lastBoundsID>>
       ELSE /\ skipUpdate \/ updateID[n] < MaxUpdateID
            /\ LET upd == ~skipUpdate /\ n \in Refreshed(n)
                   updDone == upd /\ bounds[n] # "null"
                   updRaised == ~skipUpdate /\ ~updDone
                   written == IF skipUpdate THEN {}
                              ELSE IF parent[n] = Null THEN (IF upd THEN {n} ELSE {})
                              ELSE Refreshed(n)
                   runs == ~updRaised /\ Stale(n)
                   raised == updRaised \/ (runs /\ raises) \/ bounds[n] = "null"
               IN /\ err' = raised
                  /\ calculated' = runs
                  /\ lastBoundsID' = IF runs /\ ~raised
                                     THEN calculateBounds(n) ELSE lastBoundsID
                  /\ rect' = IF raised THEN "none" ELSE "bounds"
                  /\ parent' = IF updRaised /\ parent[n] = Null
                               THEN [parent EXCEPT ![n] = TempParent]
                               ELSE IF skipUpdate THEN parent
                               ELSE [parent EXCEPT ![n] = unparented(n)]
                  /\ worldTransform' = [m \in Nodes |->
                        IF m \in written /\ transform[m] = "own"
                        THEN PostUpdated(m) ELSE worldTransform[m]]
                  /\ worldAlpha' = IF upd
                        THEN [worldAlpha EXCEPT ![n] =
                                WorldAlphaOf(alpha[n], ParentView(n).worldAlpha)]
                        ELSE worldAlpha
                  /\ updateID' = IF updDone THEN [updateID EXCEPT ![n] = @ + 1]
                                 ELSE updateID
                  /\ pass' = IF upd THEN PassAfter(n) ELSE pass

\* A getLocalBounds that leaves this.parent as it set it: null
noParentRef(n) == Null

\* const parentRef = this.parent, assigned back to this.parent before the return
parentRef(n) == parent[n]

\* getLocalBounds(rect) on node n: parent and transform are swapped for null
\* and the temporary parent's transform, getBounds(false, rect) updates the
\* node under the temporary parent, and both are put back after it returned.
getLocalBounds(n, raises) ==
    /\ call' = [op |-> "getLocalBounds", node |-> n, dead |-> destroyed[n]]
    /\ ret' = Null
    /\ point' = NoPoint
    /\ NoHit
    /\ UNCHANGED <<alpha, position, worldTransform, evVars, children, destroyed,
                   bounds, mask, filters, allowGetBounds, localBounds, restVars>>
    /\ IF ~Allowed(n)
       THEN /\ err' = FALSE
            /\ rect' = "EMPTY"
            /\ calculated' = FALSE
            /\ UNCHANGED <<parent, transform, worldAlpha, updateID, pass, lastBoundsID>>
       ELSE /\ updateID[n] < MaxUpdateID
            /\ LET updRaised == bounds[n] = "null"
                   runs == ~updRaised /\ Stale(n)
                   raised == updRaised \/ (runs /\ raises)
               IN /\ err' = raised
                  /\ calculated' = runs
                  /\ lastBoundsID' = IF runs /\ ~raises
                                     THEN calculateBounds(n) ELSE lastBoundsID
                  /\ rect' = IF raised THEN "none" ELSE "localBounds"
                  /\ parent' = IF updRaised THEN [parent EXCEPT ![n] = TempParent]
                               ELSE IF raised THEN [parent EXCEPT ![n] = Null]
                               ELSE [parent EXCEPT ![n] = parentRef(n)]
                  /\ transform' = IF raised THEN [transform EXCEPT ![n] = "temp"]
                                  ELSE transform
                  /\ worldAlpha' = [worldAlpha EXCEPT ![n] =
                        WorldAlphaOf(alpha[n], tempDisplayObjectParent.worldAlpha)]
                  /\ updateID' = IF updRaised THEN updateID
                                 ELSE [updateID EXCEPT ![n] = @ + 1]
                  /\ pass' = IF raised THEN (pass \ Subtree(n)) \cup {n}
                             ELSE IF parent[n] \in Nodes THEN pass \ Subtree(n)
                             ELSE pass \cup {n}

\* this.allowGetBounds = value
setAllowGetBounds(n, value) ==
    /\ allowGetBounds' = [allowGetBounds EXCEPT ![n] = value]
    /\ call' = [op |-> "setAllowGetBounds", node |-> n, dead |-> destroyed[n]]
    /\ NoResult
    /\ err' = FALSE
    /\ ret' = Null
    /\ UNCHANGED <<parent, alpha, worldAlpha, updateID, position, worldTransform, pass,
                   evVars, children, destroyed, transform, bounds, mask, filters,
                   lastBoundsID, localBounds, restVars>>

\* The filter lists assigned in this specification.
FilterValues == {NoFilters, FilterList(<<"blur">>)}

\* Trees as in InitTree, the subject masked by another node or by none.
InitLife ==
    /\ OtherIdle
    /\ parent \in {f \in [Nodes -> {Null} \cup Nodes] : \A n \in Nodes : f[n] < n}
    /\ children = [c \in Nodes |-> {n \in Nodes : parent[n] = c}]
    /\ mask \in {m \in [Nodes -> {Null} \cup Nodes] :
                    \A n \in Nodes : m[n] # Null => (n = Subject /\ m[n] # n)}
    /\ destroyed = [n \in Nodes |-> FALSE]
    /\ transform = [n \in Nodes |-> "own"]
    /\ bounds = [n \in Nodes |-> "own"]
    /\ filters = [n \in Nodes |-> NoFilters]
    /\ ret = Null
    /\ alpha = [n \in Nodes |-> 1]
    /\ worldAlpha = [n \in Nodes |-> 1]
    /\ updateID = [n \in Nodes |-> 0]
    /\ position = [n \in Nodes |-> 0]
    /\ worldTransform = [n \in Nodes |-> 0]
    /\ pass = {}
    /\ call = [op |-> "none", node |-> Null, dead |-> FALSE]
    /\ events = [e \in EventNames |-> NoStore]
    /\ em = NoEmit
    /\ last = NoLast
    /\ err = FALSE

\* The reads are those of a destroyed node; the listeners are the subject's.
NextLife ==
    \/ \E n \in Nodes, c \in SetParentArgs : setParent(n, c)
    \/ \E n \in Nodes : destroy(n)
    \/ \E v \in FilterValues : setFilters(Subject, v)
    \/ on("e1", "f", "undef", 0)
    \/ once("e1", "g")
    \/ \E n \in Nodes : destroyed[n] /\ readWorldTransform(n)
    \/ \E n \in Nodes, skipUpdate \in BOOLEAN :
          destroyed[n] /\ getBounds(n, skipUpdate, FALSE)

SpecLife == InitLife /\ [][NextLife]_vars

----------------------------------------------------------------------------
(* Claims checked under SpecLife                                           *)

\* C12: setParent(container) raises when container is null or does not expose
\* addChild, and then no node's parent and no container's child list changes;
\* with a Container it adds the node to that container (the node's parent is the
\* container, the node is in its child list) and returns the container.
C12_SetParentGuard ==
    [][\A n \in Nodes, c \in SetParentArgs :
          setParent(n, c) =>
              IF c = Null \/ c \notin Containers
              THEN err' /\ parent' = parent /\ children' = children /\ ret' = Null
              ELSE ~err' /\ parent'[n] = c /\ n \in children'[c] /\ ret' = c]_vars

\* setParent has raised on a node that has a parent, which it keeps.
C12_Witness ==
    /\ call.op = "setParent" /\ err /\ ret = Null
    /\ parent[call.node] \in Nodes
    /\ call.node \in children[parent[call.node]]

\* C13 (as claimed): right after destroy() the node has no listener, is in no
\* child list of its former parent, has parent null, has released transform,
\* bounds, mask and filter list, and is flagged destroyed.
C13_DestroyReleasesAll ==
    [][\A n \in Nodes :
          (destroy(n) /\ ~err') =>
              /\ n = Subject => Total(events') = 0
              /\ parent'[n] = Null
              /\ parent[n] \in Nodes => n \notin children'[parent[n]]
              /\ transform'[n] = "null"
              /\ bounds'[n] = "null"
              /\ mask'[n] = Null
              /\ filters'[n].null
              /\ destroyed'[n]]_vars

\* The node is as a destroy() that returned has left it.
AsDestroyLeft(n) ==
    /\ destroyed[n] /\ parent[n] = Null
    /\ transform[n] = "null" /\ bounds[n] = "null" /\ mask[n] = Null
    /\ n = Subject => Total(events) = 0

\* C14: destroy() on a node that a first destroy() has left destroyed does not
\* raise and changes nothing of the node's state, nor any child list.
C14_DestroyTwice ==
    [][\A n \in Nodes :
          (destroy(n) /\ AsDestroyLeft(n)) =>
              /\ ~err'
              /\ events' = events
              /\ parent' = parent /\ children' = children
              /\ transform' = transform /\ bounds' = bounds
              /\ mask' = mask /\ filters' = filters
              /\ destroyed' = destroyed]_vars

\* destroy() has returned on a node that was destroyed already.
C14_Witness ==
    /\ call.op = "destroy" /\ call.dead /\ ~err
    /\ AsDestroyLeft(call.node)

\* C15 (as claimed): reading worldTransform or calling getBounds() on a
\* destroyed node does not raise.
C15_ReadsAfterDestroy ==
    (call.op \in {"worldTransform", "getBounds"} /\ call.dead) => ~err

\* C16 (as claimed): a destroyed node has no parent and no registered listener,
\* whatever is applied to it afterwards.
C16_DestroyedIsTerminal ==
    \A n \in Nodes :
        destroyed[n] =>
            /\ parent[n] = Null
            /\ n = Subject => Total(events) = 0

----------------------------------------------------------------------------
(* updateTransform, getBounds and getLocalBounds on live nodes             *)

\* The alphas of the nodes in this specification.
BoundsAlphas == {1, 2}

\* Trees as in InitTree, the nodes sharing one alpha.
InitBounds ==
    /\ OtherIdle
    /\ parent \in {f \in [Nodes -> {Null} \cup Nodes] : \A n \in Nodes : f[n] < n}
    /\ children = [c \in Nodes |-> {n \in Nodes : parent[n] = c}]
    /\ alpha \in {[n \in Nodes |-> a] : a \in BoundsAlphas}
    /\ worldAlpha = [n \in Nodes |-> 1]
    /\ updateID = [n \in Nodes |-> 0]
    /\ position = [n \in Nodes |-> 0]
    /\ worldTransform = [n \in Nodes |-> 0]
    /\ pass = {}
    /\ call = [op |-> "none", node |-> Null, dead |-> FALSE]
    /\ destroyed = [n \in Nodes |-> FALSE]
    /\ transform = [n \in Nodes |-> "own"]
    /\ bounds = [n \in Nodes |-> "own"]
    /\ mask = [n \in Nodes |-> Null]
    /\ filters = [n \in Nodes |-> NoFilters]
    /\ ret = Null
    /\ events = [e \in EventNames |-> NoStore]
    /\ em = NoEmit
    /\ last = NoLast
    /\ err = FALSE

NextBounds ==
    \/ \E n \in Nodes : updateTransform(n)
    \/ \E n \in Nodes, skipUpdate \in BOOLEAN, raises \in BOOLEAN :
          getBounds(n, skipUpdate, raises)
    \/ \E n \in Nodes, raises \in BOOLEAN : getLocalBounds(n, raises)

SpecBounds == InitBounds /\ [][NextBounds]_vars

\* C17 (as claimed): updateTransform() on a node whose parent is null does not
\* raise.
C17_NullParentGuarded ==
    (call.op = "updateTransform" /\ parent[call.node] = Null) => ~err

\* C18 (as claimed): a getLocalBounds() that returns leaves the node's parent,
\* transform, worldAlpha and _bounds.updateID as they were before the call.
C18_GetLocalBoundsNoEffect ==
    [][\A n \in Nodes, raises \in BOOLEAN :
          (getLocalBounds(n, raises) /\ ~err') =>
              /\ parent'[n] = parent[n]
              /\ transform'[n] = transform[n]
              /\ worldAlpha'[n] = worldAlpha[n]
              /\ updateID'[n] = updateID[n]]_vars

\* C19 (as claimed): when the bounds computation raises inside
\* getLocalBounds(), the node's parent and transform are the ones it had before
\* the call.
C19_RestoredOnError ==
    [][\A n \in Nodes :
          (getLocalBounds(n, TRUE) /\ err') =>
              /\ parent'[n] = parent[n]
              /\ transform'[n] = transform[n]]_vars

\* C20 (as claimed): every call of updateTransform() adds exactly 1 to the
\* node's _bounds.updateID, getBounds(skipUpdate = true) leaves it unchanged,
\* and no operation on a live node decreases it.
C20_UpdateIDCounts ==
    [][\A n \in Nodes :
          /\ updateTransform(n) => updateID'[n] = updateID[n] + 1
          /\ \A raises \in BOOLEAN :
                getBounds(n, TRUE, raises) => updateID'[n] = updateID[n]
          /\ updateID'[n] >= updateID[n]]_vars

\* C21 (as claimed): a getBounds() that follows an updateTransform() of the
\* node runs calculateBounds again, and of two getBounds(skipUpdate = true)
\* calls in a row at most one runs calculateBounds, both returning the same
\* rectangle.
C21_RecalculatesWhenStale ==
    [][\A n \in Nodes, skipUpdate \in BOOLEAN, raises \in BOOLEAN :
          getBounds(n, skipUpdate, raises) =>
              /\ (call.op = "updateTransform" /\ call.node = n /\ ~err)
                    => calculated'
              /\ (skipUpdate /\ call.op = "getBounds" /\ call.node = n
                    /\ rect = "bounds")
                    => ((~calculated \/ ~calculated') /\ rect' = rect)]_vars

----------------------------------------------------------------------------
(* getBounds with allowGetBounds switched off and on                       *)

\* The alpha of the nodes in this specification.
AllowAlpha == 2

\* Trees as in InitTree, every node allowing getBounds as constructed.
InitAllow ==
    /\ OtherIdle
    /\ parent \in {f \in [Nodes -> {Null} \cup Nodes] : \A n \in Nodes : f[n] < n}
    /\ children = [c \in Nodes |-> {n \in Nodes : parent[n] = c}]
    /\ alpha = [n \in Nodes |-> AllowAlpha]
    /\ worldAlpha = [n \in Nodes |-> 1]
    /\ updateID = [n \in Nodes |-> 0]
    /\ position = [n \in Nodes |-> 0]
    /\ worldTransform = [n \in Nodes |-> 0]
    /\ pass = {}
    /\ call = [op |-> "none", node |-> Null, dead |-> FALSE]
    /\ destroyed = [n \in Nodes |-> FALSE]
    /\ transform = [n \in Nodes |-> "own"]
    /\ bounds = [n \in Nodes |-> "own"]
    /\ mask = [n \in Nodes |-> Null]
    /\ filters = [n \in Nodes |-> NoFilters]
    /\ ret = Null
    /\ events = [e \in EventNames |-> NoStore]
    /\ em = NoEmit
    /\ last = NoLast
    /\ err = FALSE

NextAllow ==
    \/ \E n \in Nodes, value \in BOOLEAN : setAllowGetBounds(n, value)
    \/ \E n \in Nodes : updateTransform(n)
    \/ \E n \in Nodes, skipUpdate \in BOOLEAN : getBounds(n, skipUpdate, FALSE)

SpecAllow == InitAllow /\ [][NextAllow]_vars

\* C22: with allowGetBounds false, getBounds returns the empty rectangle for
\* either value of skipUpdate, does not raise, and performs no update: no
\* node's world transform, worldAlpha, parent or bounds version changes and
\* calculateBounds is not run.
C22_DisallowedReturnsEmpty ==
    [][\A n \in Nodes, skipUpdate \in BOOLEAN, raises \in BOOLEAN :
          (getBounds(n, skipUpdate, raises) /\ ~allowGetBounds[n]) =>
              /\ rect' = "EMPTY" /\ ~err' /\ ~calculated'
              /\ worldTransform' = worldTransform /\ transform' = transform
              /\ worldAlpha' = worldAlpha
              /\ parent' = parent
              /\ updateID' = updateID
              /\ lastBoundsID' = lastBoundsID]_vars

\* getBounds has returned the empty rectangle on a node with a parent whose
\* worldAlpha an update would have changed, and whose bounds were never
\* calculated.
C22_Witness ==
    /\ call.op = "getBounds" /\ rect = "EMPTY" /\ ~err
    /\ ~allowGetBounds[call.node]
    /\ parent[call.node] \in Nodes
    /\ worldAlpha[call.node] # alpha[call.node] * worldAlpha[parent[call.node]]
    /\ lastBoundsID[call.node] = NoBoundsID

----------------------------------------------------------------------------
(* toGlobal, toLocal and getBounds on nodes that are moved                  *)

\* The local translations given to the nodes.
Positions == {0, 1}

\* The points converted.
Points == {0, 2}

\* Trees as in InitTree, every node at the origin and never updated.
InitPoint ==
    /\ OtherIdle
    /\ parent \in {f \in [Nodes -> {Null} \cup Nodes] : \A n \in Nodes : f[n] < n}
    /\ children = [c \in Nodes |-> {n \in Nodes : parent[n] = c}]
    /\ alpha = [n \in Nodes |-> 1]
    /\ worldAlpha = [n \in Nodes |-> 1]
    /\ updateID = [n \in Nodes |-> 0]
    /\ position = [n \in Nodes |-> 0]
    /\ worldTransform = [n \in Nodes |-> 0]
    /\ pass = {}
    /\ call = [op |-> "none", node |-> Null, dead |-> FALSE]
    /\ destroyed = [n \in Nodes |-> FALSE]
    /\ transform = [n \in Nodes |-> "own"]
    /\ bounds = [n \in Nodes |-> "own"]
    /\ mask = [n \in Nodes |-> Null]
    /\ filters = [n \in Nodes |-> NoFilters]
    /\ ret = Null
    /\ events = [e \in EventNames |-> NoStore]
    /\ em = NoEmit
    /\ last = NoLast
    /\ err = FALSE

\* The point a toGlobal has just returned, which toLocal may be given.
Returned == IF call.op = "toGlobal" THEN {point.out} ELSE {}

\* The nodes are moved one by one; the conversions are those of the last node,
\* which is a root, a child or a grandchild.
NextPoint ==
    \/ \E n \in Nodes, x \in Positions : setPosition(n, x)
    \/ \E pos \in Points, skipUpdate \in BOOLEAN : toGlobal(Subject, pos, skipUpdate)
    \/ \E pos \in Points \cup Returned, from \in {Null} \cup Nodes,
          skipUpdate \in BOOLEAN : toLocal(Subject, pos, from, skipUpdate)
    \/ getBounds(Subject, FALSE, FALSE)

SpecPoint == InitPoint /\ [][NextPoint]_vars

\* The local translations from the root down to n, added up.
RECURSIVE ChainSum(_)
ChainSum(n) ==
    IF parent[n] \notin Nodes THEN position[n] ELSE position[n] + ChainSum(parent[n])

\* Every node from the root down to n has the world translation of its chain.
ChainCurrent(n) == \A m \in Chain(n) : worldTransform'[m] = ChainSum(m)

\* C23: toGlobal, toLocal and getBounds called with skipUpdate false leave
\* every node from the root down to the node (and down to from, for toLocal)
\* with a world transform composed of the current local transforms of its
\* chain, the root's against the identity, and the point returned is mapped by
\* that world transform.
C23_ChainRefreshedRootFirst ==
    [][\A n \in Nodes :
          /\ \A pos \in Points :
                toGlobal(n, pos, FALSE) =>
                    (ChainCurrent(n) /\ point'.out = pos + ChainSum(n))
          /\ \A pos \in Points \cup Returned, from \in {Null} \cup Nodes :
                toLocal(n, pos, from, FALSE) =>
                    /\ ChainCurrent(n)
                    /\ from # Null => ChainCurrent(from)
                    /\ point'.out = (IF from = Null THEN pos ELSE pos + ChainSum(from))
                                        - ChainSum(n)
          /\ getBounds(n, FALSE, FALSE) => ChainCurrent(n)]_vars

\* toLocal, given another node to convert from, has refreshed a chain of three
\* moved nodes whose world transforms were those of the constructor.
C23_Witness ==
    /\ call.op = "toLocal" /\ ~point.skipUpdate /\ updateID[Subject] = 1
    /\ \A n \in Nodes : parent[n] = n - 1 /\ position[n] = 1
    /\ worldTransform[Subject] = NumNodes
    /\ point.arg # point.out

----------------------------------------------------------------------------
(* hitTest of src/src/core/display/DisplayObject.js                        *)

\* The cap of _bounds.updateID in this specification.
MaxHitUpdateID == 7

\* The calls hitTest makes on each of the two nodes that update the node.
HitCalls ==
    <<"getLocalBounds", "updateTransform", "getBounds",
      "toGlobal", "toGlobal", "toGlobal", "toGlobal">>

\* [r1TL, r1TR, r1BR, r1BL]: the corners of the local bounds, each mapped by
\* toGlobal under the world translation tx.
Corners(r, tx) ==
    <<[x |-> apply(tx, r.x), y |-> r.y],
      [x |-> apply(tx, r.x + r.width), y |-> r.y],
      [x |-> apply(tx, r.x + r.width), y |-> r.y + r.height],
      [x |-> apply(tx, r.x), y |-> r.y + r.height]>>

\* intersectPoint(a, b, c, d) as a truth value. x and y of the source are
\* xNum / denominator and yNum / denominator; with integer coordinates and
\* denominator * denominator * 0.000001 < 1, (x - p) * (x - q) <= num holds
\* exactly when (xNum - p * denominator) * (xNum - q * denominator) <= 0.
intersectPoint(a, b, c, d) ==
    LET denominator == (b.y - a.y) * (d.x - c.x) - (a.x - b.x) * (c.y - d.y)
        xNum == (b.x - a.x) * (d.x - c.x) * (c.y - a.y)
                  + (b.y - a.y) * (d.x - c.x) * a.x
                  - (d.y - c.y) * (b.x - a.x) * c.x
        yNum == 0 - ((b.y - a.y) * (d.y - c.y) * (c.x - a.x)
                  + (b.x - a.x) * (d.y - c.y) * a.y
                  - (d.x - c.x) * (b.y - a.y) * c.y)
        Within(v, p, q) == (v - p * denominator) * (v - q * denominator) <= 0
    IN /\ denominator # 0
       /\ Within(xNum, a.x, b.x) /\ Within(yNum, a.y, b.y)
       /\ Within(xNum, c.x, d.x) /\ Within(yNum, c.y, d.y)

\* containsPoint(vs, p): the ray cast from p crosses an odd number of edges;
\* x < (xj - xi) * (y - yi) / (yj - yi) + xi is multiplied by yj - yi.
containsPoint(vs, p) ==
    LET Prev(i) == IF i = 1 THEN Len(vs) ELSE i - 1
        intersect(i) ==
            LET xi == vs[i].x
                yi == vs[i].y
                xj == vs[Prev(i)].x
                yj == vs[Prev(i)].y
            IN /\ (yi > p.y) # (yj > p.y)
               /\ IF yj > yi
                  THEN (p.x - xi) * (yj - yi) < (xj - xi) * (p.y - yi)
                  ELSE (p.x - xi) * (yj - yi) > (xj - xi) * (p.y - yi)
    IN Cardinality({i \in 1..Len(vs) : intersect(i)}) % 2 = 1

\* check(): some edge of the one crosses an edge of the other, or a corner of
\* the one lies in the other.
check(arr0, arr1) ==
    LET Next4(i) == (i % Len(arr0)) + 1
    IN \/ \E i \in 1..Len(arr0), j \in 1..Len(arr1) :
              intersectPoint(arr0[i], arr0[Next4(i)], arr1[j], arr1[Next4(j)])
       \/ \E i \in 1..Len(arr0) : containsPoint(arr1, arr0[i])
       \/ \E i \in 1..Len(arr1) : containsPoint(arr0, arr1[i])

\* What getLocalBounds() leaves in the ghost set of the nodes updated in order.
LocalBoundsPass(P, x) == IF parent[x] \in Nodes THEN P \ Subtree(x) ELSE P \cup {x}

\* What updateTransform() leaves in it for a node with a parent.
UpdatePass(P, x) == IF parent[x] \in P THEN P \cup {x} ELSE P \ {x}

\* hitTest(dis) on node n, dis being another node m, both live and allowing
\* getBounds, calculateBounds returning: getLocalBounds() on both,
\* updateTransform() on both (a node with parent null raises there),
\* getBounds() on both, then toGlobal on the four corners of each, and check().
hitTest(n, m) ==
    LET alphaA == [x \in Nodes |->
                     IF x \in {n, m}
                     THEN WorldAlphaOf(alpha[x], tempDisplayObjectParent.worldAlpha)
                     ELSE worldAlpha[x]]
        passA  == LocalBoundsPass(LocalBoundsPass(pass, n), m)
        raisesA == parent[n] = Null
        raisesB == ~raisesA /\ parent[m] = Null
        own(x) == WorldAlphaOf(alpha[x], worldAlpha[parent[x]])
        passZ  == UpdatePass(UpdatePass(UpdatePass(UpdatePass(UpdatePass(
                      UpdatePass(passA, n), m), n), m), n), m)
    IN /\ n # m
       /\ \A x \in {n, m} :
             /\ ~destroyed[x] /\ transform[x] = "own" /\ bounds[x] = "own"
             /\ allowGetBounds[x]
             /\ updateID[x] + Len(HitCalls) <= MaxHitUpdateID
       /\ call' = [op |-> "hitTest", node |-> n, dead |-> destroyed[n]]
       /\ ret' = m
       /\ NoRect
       /\ point' = NoPoint
       /\ lastBoundsID' = [x \in Nodes |->
                             IF x \in {n, m} THEN BoundsID ELSE lastBoundsID[x]]
       /\ IF raisesA
          THEN /\ err' = TRUE
               /\ hit' = "none"
               /\ worldAlpha' = alphaA
               /\ updateID' = [x \in Nodes |->
                     IF x \in {n, m} THEN updateID[x] + 1 ELSE updateID[x]]
               /\ pass' = passA
               /\ UNCHANGED worldTransform
          ELSE IF raisesB
          THEN /\ err' = TRUE
               /\ hit' = "none"
               /\ worldAlpha' = [alphaA EXCEPT ![n] =
                                   WorldAlphaOf(alpha[n], alphaA[parent[n]])]
               /\ worldTransform' = [worldTransform EXCEPT ![n] =
                     TransformUpdate(position[n], worldTransform[parent[n]])]
               /\ updateID' = [x \in Nodes |->
                     IF x = n THEN updateID[x] + 2
                     ELSE IF x = m THEN updateID[x] + 1 ELSE updateID[x]]
               /\ pass' = UpdatePass(passA, n)
          ELSE /\ err' = FALSE
               /\ worldTransform' = [x \in Nodes |->
                     IF x \in Chain(n) \cup Chain(m) THEN PostUpdated(x)
                     ELSE worldTransform[x]]
               /\ worldAlpha' = [x \in Nodes |->
                     IF x \notin {n, m} THEN worldAlpha[x]
                     ELSE IF parent[x] \in {n, m}
                          THEN WorldAlphaOf(alpha[x], own(parent[x]))
                          ELSE own(x)]
               /\ updateID' = [x \in Nodes |->
                     IF x \in {n, m} THEN updateID[x] + Len(HitCalls)
                     ELSE updateID[x]]
               /\ pass' = passZ
               /\ hit' = IF check(Corners(localBounds[n], worldTransform'[n]),
                                  Corners(localBounds[m], worldTransform'[m]))
                         THEN "true" ELSE "false"
       /\ UNCHANGED <<parent, alpha, position, evVars, children, destroyed, transform,
                      bounds, mask, filters, allowGetBounds, localBounds, restVars>>

\* Rectangle(x, y, width, height)
Rectangle(x, y, width, height) == [x |-> x, y |-> y, width |-> width, height |-> height]

\* The local bounds of the nodes: the rectangles of the examples, a small one
\* inside the first, and one that shares an edge with the first.
Rects ==
    {Rectangle(0, 0, 10, 10), Rectangle(5, 5, 10, 10), Rectangle(20, 20, 10, 10),
     Rectangle(4, 4, 2, 2), Rectangle(10, 0, 10, 10)}

\* The local translations of the nodes in this specification.
HitPositions == {0, 1}

\* Trees as in InitTree, each node with a rectangle for local bounds and the
\* nodes moved by one translation.
InitHit ==
    /\ CacheIdle
    /\ RestIdle
    /\ localBounds \in [Nodes -> Rects]
    /\ parent \in {f \in [Nodes -> {Null} \cup Nodes] : \A n \in Nodes : f[n] < n}
    /\ children = [c \in Nodes |-> {n \in Nodes : parent[n] = c}]
    /\ alpha = [n \in Nodes |-> 1]
    /\ worldAlpha = [n \in Nodes |-> 1]
    /\ updateID = [n \in Nodes |-> 0]
    /\ position \in {[n \in Nodes |-> x] : x \in HitPositions}
    /\ worldTransform = [n \in Nodes |-> 0]
    /\ pass = {}
    /\ call = [op |-> "none", node |-> Null, dead |-> FALSE]
    /\ destroyed = [n \in Nodes |-> FALSE]
    /\ transform = [n \in Nodes |-> "own"]
    /\ bounds = [n \in Nodes |-> "own"]
    /\ mask = [n \in Nodes |-> Null]
    /\ filters = [n \in Nodes |-> NoFilters]
    /\ ret = Null
    /\ events = [e \in EventNames |-> NoStore]
    /\ em = NoEmit
    /\ last = NoLast
    /\ err = FALSE

NextHit == \E n \in Nodes, m \in Nodes : hitTest(n, m)

SpecHit == InitHit /\ [][NextHit]_vars

\* The global box of node n: its local bounds moved by the translations of
\* its chain.
GlobalBox(n) ==
    [left |-> localBounds[n].x + ChainSum(n),
     right |-> localBounds[n].x + ChainSum(n) + localBounds[n].width,
     top |-> localBounds[n].y,
     bottom |-> localBounds[n].y + localBounds[n].height]

\* The two boxes share inner points; one lying inside the other is a case.
Overlap(a, b) ==
    /\ a.left < b.right /\ b.left < a.right
    /\ a.top < b.bottom /\ b.top < a.bottom

\* Box a lies strictly inside box b.
StrictlyInside(a, b) ==
    /\ b.left < a.left /\ a.right < b.right
    /\ b.top < a.top /\ a.bottom < b.bottom

\* The two boxes are apart.
Disjoint(a, b) ==
    \/ a.right < b.left \/ b.right < a.left
    \/ a.bottom < b.top \/ b.bottom < a.top

\* C25 (as claimed): hitTest(other) on two unrotated nodes returns true when
\* their global boxes overlap, true when one lies strictly inside the other,
\* and false when they are disjoint.
C25_HitTestRectangles ==
    call.op = "hitTest" =>
        LET a == GlobalBox(call.node)
            b == GlobalBox(ret)
        IN /\ Overlap(a, b) => hit = "true"
           /\ (StrictlyInside(a, b) \/ StrictlyInside(b, a)) => hit = "true"
           /\ Disjoint(a, b) => hit = "false"

----------------------------------------------------------------------------
(* src/src/core/math/ObservablePoint.js: a point with a callback           *)

\* The number of writes made to the point.
MaxWrites == 3

\* The numbers written to the point.
Numbers == 0..2

\* The arguments of set: a number or nothing.
Args == {Arg(v) : v \in Numbers} \cup {Omitted}

\* value || 0
OrZero(a) == IF a.given /\ a.value # 0 THEN a.value ELSE 0

\* y || 0, an omitted y not mirroring x
OrZeroOnly(y, x) == IF y.given /\ y.value # 0 THEN y.value ELSE 0

\* y || ((y !== 0) ? _x : 0)
OrMirror(y, x) ==
    IF y.given /\ y.value # 0 THEN y.value
    ELSE IF ~(y.given /\ y.value = 0) THEN x
    ELSE 0

\* The state of the scene graph and of the registry, which no write to the
\* point touches.
notPoint == <<evVars, err, graphVars, lifeVars, cacheVars, localBounds, maskVars,
              listVars, resultVars, moreVars>>

\* A write that invokes the callback without comparing
storeXYAlways(x, y) ==
    /\ pointX' = x
    /\ pointY' = y
    /\ fired' = fired + 1

\* if (this._x !== x || this._y !== y) { this._x = x; this._y = y; cb() }
storeXY(x, y) ==
    IF pointX # x \/ pointY # y
    THEN /\ pointX' = x
         /\ pointY' = y
         /\ fired' = fired + 1
    ELSE UNCHANGED <<pointX, pointY, fired>>

\* set(x, y)
set(x, y) ==
    /\ write.nth < MaxWrites
    /\ write' = [op |-> "set", x |-> x, y |-> y, nth |-> write.nth + 1]
    /\ storeXY(OrZero(x), OrMirror(y, OrZero(x)))
    /\ UNCHANGED notPoint

\* copy(point)
copy(x, y) ==
    /\ write.nth < MaxWrites
    /\ write' = [op |-> "copy", x |-> Arg(x), y |-> Arg(y), nth |-> write.nth + 1]
    /\ storeXY(x, y)
    /\ UNCHANGED notPoint

\* set x(value)
setX(value) ==
    /\ write.nth < MaxWrites
    /\ write' = [op |-> "x", x |-> Arg(value), y |-> Omitted,
                 nth |-> write.nth + 1]
    /\ storeXY(value, pointY)
    /\ UNCHANGED notPoint

\* set y(value)
setY(value) ==
    /\ write.nth < MaxWrites
    /\ write' = [op |-> "y", x |-> Omitted, y |-> Arg(value),
                 nth |-> write.nth + 1]
    /\ storeXY(pointX, value)
    /\ UNCHANGED notPoint

\* new ObservablePoint(cb, scope): the point at (0, 0), the callback never
\* invoked.
InitObservable == Init

NextObservable ==
    \/ \E x \in Args, y \in Args : set(x, y)
    \/ \E x \in Numbers, y \in Numbers : copy(x, y)
    \/ \E value \in Numbers : setX(value)
    \/ \E value \in Numbers : setY(value)

SpecObservable == InitObservable /\ [][NextObservable]_vars

\* C26: each write through the x setter, the y setter, set or copy invokes the
\* callback exactly once when it changes the stored x or y, and not at all
\* when it leaves both unchanged.
C26_CallbackOncePerChange ==
    [][write' # write =>
          fired' - fired =
              (IF pointX' # pointX \/ pointY' # pointY THEN 1 ELSE 0)]_vars

\* point.x = 2; point.x = 2: the callback was invoked once in total.
C26_Witness ==
    /\ write = [op |-> "x", x |-> Arg(2), y |-> Omitted, nth |-> 2]
    /\ pointX = 2 /\ pointY = 0 /\ fired = 1

\* C27: set(x) stores (x, x), set(x, 0) stores (x, 0), set(x, y) with y not 0
\* stores (x, y), and set() stores (0, 0).
C27_SetMirrorsOmittedY ==
    write.op = "set" =>
        LET x == IF write.x.given THEN write.x.value ELSE 0
        IN /\ pointX = x
           /\ pointY = (IF write.y.given THEN write.y.value ELSE x)

\* set(2) has stored (2, 2).
C27_Witness ==
    /\ write.op = "set" /\ write.x = Arg(2) /\ write.y = Omitted
    /\ pointX = 2 /\ pointY = 2

----------------------------------------------------------------------------
(* The mask accessor of src/src/core/display/DisplayObject.js              *)

\* A setter that takes the node to have no mask
neverMask(n) == FALSE

\* if (this._mask), before this._mask is assigned
hasMask(n) == mask[n] # Null

\* this.mask = value: the old mask is made renderable and no mask, the new
\* one not renderable and a mask.
setMask(n, value) ==
    LET old == mask[n]
        released == [renderable EXCEPT ![old] = TRUE]
        unmasked == [isMask EXCEPT ![old] = FALSE]
        r1 == IF hasMask(n) THEN released ELSE renderable
        m1 == IF hasMask(n) THEN unmasked ELSE isMask
    IN /\ mask' = [mask EXCEPT ![n] = value]
       /\ renderable' = IF value # Null THEN [r1 EXCEPT ![value] = FALSE] ELSE r1
       /\ isMask' = IF value # Null THEN [m1 EXCEPT ![value] = TRUE] ELSE m1
       /\ call' = [op |-> "setMask", node |-> n, dead |-> destroyed[n]]
       /\ NoResult
       /\ err' = FALSE
       /\ ret' = Null
       /\ UNCHANGED <<parent, alpha, worldAlpha, updateID, position, worldTransform,
                      pass, evVars, children, destroyed, transform, bounds, filters,
                      cacheVars, localBounds, listVars, pointVars, moreVars>>

\* The nodes as their constructors leave them, no mask assigned.
InitMask == Init

\* Masks are assigned, replaced and cleared on every node.
NextMask == \E n \in Nodes, value \in {Null} \cup Nodes : setMask(n, value)

SpecMask == InitMask /\ [][NextMask]_vars

\* C28 (as claimed): every node that is the mask of some node is not
\* renderable and is flagged as a mask.
C28_MaskTargetsHidden ==
    \A n \in Nodes :
        mask[n] # Null => (~renderable[mask[n]] /\ isMask[mask[n]])

----------------------------------------------------------------------------
(* The filters accessors and the lists their callers hold                  *)

\* The longest list a caller makes.
MaxFilters == 3

\* The filters that are put in lists.
Filters == {"blur", "noise"}

\* The values assigned to filters: null and lists of one or two filters.
FilterLists ==
    {NoFilters, FilterList(<<"blur">>), FilterList(<<"blur", "noise">>),
     FilterList(<<"noise", "blur">>)}

\* list.push(item) on the list a caller holds, the one passed to the setter
\* (ofGiven) or the one the getter returned; a list the node holds too is the
\* node's list, and every holder of it sees the item.
push(ofGiven, item) ==
    LET held == IF ofGiven THEN given ELSE got
        pushed == Append(held.items, item)
        Same(other) == held.shared /\ other.shared /\ other.node = held.node
    IN /\ ~held.null
       /\ Len(held.items) < MaxFilters
       /\ filters' = IF held.shared
                     THEN [filters EXCEPT ![held.node] = FilterList(pushed)]
                     ELSE filters
       /\ given' = IF ofGiven \/ Same(given)
                   THEN [given EXCEPT !.items = pushed] ELSE given
       /\ got' = IF ~ofGiven \/ Same(got)
                 THEN [got EXCEPT !.items = pushed] ELSE got
       /\ call' = [op |-> IF ofGiven THEN "pushGiven" ELSE "pushGot",
                   node |-> held.node, dead |-> FALSE]
       /\ NoResult
       /\ err' = FALSE
       /\ ret' = Null
       /\ UNCHANGED <<parent, alpha, worldAlpha, updateID, position, worldTransform,
                      pass, evVars, children, destroyed, transform, bounds, mask,
                      cacheVars, localBounds, maskVars, pointVars, moreVars>>

\* The nodes as their constructors leave them.
InitFilters == Init

NextFilters ==
    \/ \E value \in FilterLists : setFilters(Subject, value)
    \/ getFilters(Subject)
    \/ \E ofGiven \in BOOLEAN, item \in Filters : push(ofGiven, item)

SpecFilters == InitFilters /\ [][NextFilters]_vars

\* C29: the filters getter returns the items of the node's list in the same
\* order, and a push onto the list it returned, or onto the list that was
\* passed to the setter, leaves the node's list, hence every later read, as it
\* was.
C29_FiltersCopied ==
    [][/\ \A n \in Nodes :
             getFilters(n) =>
                 (got'.null = filters[n].null /\ got'.items = filters[n].items)
       /\ \A ofGiven \in BOOLEAN, item \in Filters :
             push(ofGiven, item) => filters' = filters]_vars

\* The list the getter returned for a list of two has been pushed onto, the
\* list passed to the setter too, and the node's list still has its two items.
C29_Witness ==
    /\ call.op = "pushGot"
    /\ Len(filters[Subject].items) = 2
    /\ Len(got.items) = MaxFilters /\ Len(given.items) = MaxFilters

----------------------------------------------------------------------------
(* Listeners removed while emit iterates: emit and removeListener of
   DisplayObject.js *)

\* The array emit would iterate if removeListener wrote into the registered
\* array: what is left of it, then the listeners emit read at its start.
liveListeners ==
    LET now == events[em.evt].ls
    IN now \o SubSeq(em.listeners, Len(now) + 1, em.length)

\* var listeners = this._events[evt]: the array emit read at its start.
\* removeListener fills a new array (events = []) and assigns it to
\* this._events[evt], so that the one emit holds is not written.
listeners == em.listeners

\* One iteration of the loop of emit in which the handler, when it is applied,
\* calls this.removeListener(evt, fn, capture); fn = "undef" is a handler that
\* removes nothing.
emitStepRemoving(fn, capture) ==
    /\ em.active
    /\ LET l == listeners[em.i]
           called == Fires(l, em.a1)
           more == em.i < em.length
           auto == IF l.once
                   THEN removeListenerStore(events[em.evt], l.fn, "undef", TRUE)
                   ELSE events[em.evt]
           left == removeListenerStore(auto, fn, capture, FALSE)
           removal == [at |-> em.i, fn |-> fn, removed |-> Len(auto.ls) - Len(left.ls)]
       IN IF Stopped(em.a1)
          THEN /\ fn = "undef"
               /\ events' = [events EXCEPT ![em.evt] = auto]
               /\ em' = [em EXCEPT !.active = FALSE, !.ret = "true"]
          ELSE /\ fn # "undef" => called
               /\ events' = [events EXCEPT ![em.evt] = left]
               /\ \E p \in AfterHandler(em.a1, called) :
                     em' = [em EXCEPT !.a1 = p,
                                      !.calls = IF called THEN Append(@, em.i) ELSE @,
                                      !.stopped = IF called THEN Append(@, Stopped(em.a1)) ELSE @,
                                      !.removals = IF fn # "undef" THEN Append(@, removal) ELSE @,
                                      !.i = em.i + 1,
                                      !.active = more,
                                      !.ret = IF more THEN "none" ELSE "true"]
    /\ UNCHANGED <<last, err, treeVars>>

\* The event the listeners are registered for.
ReentrantEvent == "e1"

\* An emitter without listeners.
InitReentrant == Init

NextReentrant ==
    \/ \E fn \in Handlers, c \in Tri, p \in Priorities : on(ReentrantEvent, fn, c, p)
    \/ \E fn \in Handlers : once(ReentrantEvent, fn)
    \/ \E a \in Payloads : emit(ReentrantEvent, a)
    \/ \E fn \in Handlers \cup {"undef"}, c \in Tri : emitStepRemoving(fn, c)

SpecReentrant == InitReentrant /\ [][NextReentrant]_vars

\* The places, in list order, of the listeners of the array emit read at its
\* start whose capture flag matches the payload.
Matching ==
    SelectSeq([k \in 1..em.length |-> k], LAMBDA k : Fires(em.listeners[k], em.a1))

\* C30: once an emit has returned without stopImmediate having been set, every
\* listener that was registered when it started and whose capture flag matches
\* the payload has been invoked exactly once, in list order, whatever listeners
\* were removed during the emit by once auto-removal or by a handler calling
\* removeListener.
C30_RemovalSkipsNoListener ==
    (EmitDone /\ ~Stopped(em.a1)) => em.calls = Matching

\* An emit has returned during which a handler removed a listener registered
\* after it, a once listener was removed too, and the removed listener was
\* still invoked.
C30_Witness ==
    /\ EmitDone /\ ~Stopped(em.a1)
    /\ \E k \in 1..em.length : em.listeners[k].once
    /\ \E j \in 1..Len(em.removals), k \in 1..em.length :
          /\ em.removals[j].removed > 0
          /\ k > em.removals[j].at
          /\ em.listeners[k].fn = em.removals[j].fn
          /\ ~em.listeners[k].once
          /\ ~HasFn(events[em.evt].ls, em.listeners[k].fn)
          /\ InCalls(k)

----------------------------------------------------------------------------
(* The vertices of src/src/mesh/RopeBitmap.js                               *)

MaxPoints == 3

\* The coordinates of the points of a rope.
Coords == {0, 1}

RopePoints == [x : Coords, y : Coords]

\* The arrays of points setPoints is given.
PointLists == UNION {[1..len -> RopePoints] : len \in 0..MaxPoints}

\* this._texture.height
TextureHeight == 2

\* new Float32Array(length): zeros
Float32Array(length) == [k \in 1..length |-> [nan |-> FALSE, at |-> 0, perp |-> 0, length2 |-> 1]]

\* perp / perpLength with perpLength the square root of length2: NaN when both
\* are 0 (perp is 0 whenever length2 is), the quotient kept as its two terms
\* otherwise.
divide(perp, length2) ==
    [nan |-> length2 = 0, perp |-> perp, length2 |-> length2]

\* at + q * num, NaN when q is
plus(at, q, num) ==
    [nan |-> q.nan, at |-> at, perp |-> q.perp * num, length2 |-> q.length2]

\* The four values the loop of refreshVertices writes for the point at place i
\* (from 1) of list.
verticesOf(list, i) ==
    LET total == Len(list)
        pt == list[i]
        lastPoint == IF i = 1 THEN list[1] ELSE list[i - 1]
        nextPoint == IF i < total THEN list[i + 1] ELSE pt
        perpY == -(nextPoint.x - lastPoint.x)
        perpX == nextPoint.y - lastPoint.y
        length2 == (perpX * perpX) + (perpY * perpY)
        num == TextureHeight \div 2
        qX == divide(perpX, length2)
        qY == divide(perpY, length2)
    IN <<plus(pt.x, qX, num), plus(pt.y, qY, num),
         plus(pt.x, qX, -num), plus(pt.y, qY, -num)>>

RECURSIVE verticesUpTo(_, _)
verticesUpTo(list, i) ==
    IF i = 0 THEN <<>> ELSE verticesUpTo(list, i - 1) \o verticesOf(list, i)

\* The array refreshVertices leaves in this.vertices.
refreshed(p, old) ==
    IF p.undefined \/ Len(p.list) < 1 THEN old ELSE verticesUpTo(p.list, Len(p.list))

\* refreshVertices(), as updateTransform calls it for a rope with autoUpdate
refreshVertices ==
    /\ vertices' = refreshed(points, vertices)
    /\ call' = [op |-> "refreshVertices", node |-> Null, dead |-> FALSE]
    /\ NoResult
    /\ err' = FALSE
    /\ UNCHANGED <<points, uvsSet>>
    /\ UNCHANGED <<evVars, parent, alpha, worldAlpha, updateID, position,
                   worldTransform, pass, lifeVars, cacheVars, localBounds, maskVars,
                   listVars, pointVars, eqVars, fitVars>>

\* setPoints(list): the arrays are allocated, then refresh() returns early for
\* no point or a texture without uvs, raises a ReferenceError in its loop for
\* two points or more (offset and factor are not defined), and calls
\* refreshVertices() for one point.
setPoints(list) ==
    LET p == [undefined |-> FALSE, list |-> list]
        total == Len(list)
        allocated == Float32Array(total * 4)
        returns == total < 1 \/ ~uvsSet
        raises == ~returns /\ total > 1
    IN /\ points' = p
       /\ vertices' = IF returns \/ raises THEN allocated ELSE refreshed(p, allocated)
       /\ call' = [op |-> "setPoints", node |-> Null, dead |-> FALSE]
       /\ NoResult
       /\ err' = raises
       /\ UNCHANGED uvsSet
       /\ UNCHANGED <<evVars, parent, alpha, worldAlpha, updateID, position,
                      worldTransform, pass, lifeVars, cacheVars, localBounds, maskVars,
                      listVars, pointVars, eqVars, fitVars>>

\* A rope constructed without points, its texture loaded or not.
InitRope ==
    /\ EmitterIdle /\ CacheIdle /\ ViewIdle /\ LifeFields /\ TreeFields
    /\ localBounds = [n \in Nodes |-> EmptyRect]
    /\ EqIdle /\ FitIdle
    /\ points = NoPoints
    /\ vertices = <<>>
    /\ uvsSet \in BOOLEAN

NextRope ==
    \/ \E list \in PointLists : setPoints(list)
    \/ refreshVertices

SpecRope == InitRope /\ [][NextRope]_vars

\* C31 (as claimed): refreshVertices never divides by a perpendicular of length
\* 0, so that no vertex it has written is NaN.
C31_NoZeroDivision ==
    call.op = "refreshVertices" =>
        \A k \in 1..Len(vertices) : ~vertices[k].nan

----------------------------------------------------------------------------
(* The currentEquipment accessor of src/src/core/display/DisplayObject.js   *)

\* The values assigned to currentEquipment: undefined, null, a node.
EqValues == {NoEq, Null} \cup Nodes

\* var eq = this; while (eq) { if (eq instanceof BaseEquipment) ...; eq = eq.parent }
\* The nearest equipment from n upwards, NoEq when the walk ends without one
\* (window.chemical undefined: no node is an equipment).
RECURSIVE nearest(_)
nearest(n) ==
    IF n \notin Nodes THEN NoEq
    ELSE IF n \in equipments THEN n
         ELSE nearest(parent[n])

\* A getter that searches at every read
alwaysUndefined(n) == NoEq

\* this._currentEq_ as the getter reads it
cachedEq(n) == currentEq[n]

\* get currentEquipment
getCurrentEquipment(n) ==
    LET found == IF cachedEq(n) = NoEq THEN nearest(n) ELSE cachedEq(n)
    IN /\ currentEq' = IF cachedEq(n) = NoEq /\ found # NoEq
                       THEN [currentEq EXCEPT ![n] = found]
                       ELSE currentEq
       /\ eq' = found
       /\ call' = [op |-> "getCurrentEquipment", node |-> n, dead |-> destroyed[n]]
       /\ NoResult
       /\ err' = FALSE
       /\ ret' = Null
       /\ UNCHANGED equipments
       /\ UNCHANGED <<parent, alpha, worldAlpha, updateID, position, worldTransform,
                      pass, evVars, children, destroyed, transform, bounds, mask,
                      filters, cacheVars, localBounds, maskVars, listVars, pointVars,
                      ropeVars, fitVars>>

\* set currentEquipment(c)
setCurrentEquipment(n, c) ==
    /\ currentEq' = [currentEq EXCEPT ![n] = c]
    /\ eq' = NoEq
    /\ call' = [op |-> "setCurrentEquipment", node |-> n, dead |-> destroyed[n]]
    /\ NoResult
    /\ err' = FALSE
    /\ ret' = Null
    /\ UNCHANGED equipments
    /\ UNCHANGED <<parent, alpha, worldAlpha, updateID, position, worldTransform,
                   pass, evVars, children, destroyed, transform, bounds, mask,
                   filters, cacheVars, localBounds, maskVars, listVars, pointVars,
                   ropeVars, fitVars>>

\* A forest of nodes some of which are equipments, nothing read yet.
InitEquipment ==
    /\ EmitterIdle /\ CacheIdle /\ ViewIdle /\ RopeIdle /\ FitIdle
    /\ localBounds = [n \in Nodes |-> EmptyRect]
    /\ TreeFields
    /\ children = [n \in Nodes |-> {}]
    /\ destroyed = [n \in Nodes |-> FALSE]
    /\ transform = [n \in Nodes |-> "own"]
    /\ bounds = [n \in Nodes |-> "own"]
    /\ mask = [n \in Nodes |-> Null]
    /\ filters = [n \in Nodes |-> NoFilters]
    /\ ret = Null
    /\ equipments \in SUBSET Nodes
    /\ currentEq = [n \in Nodes |-> NoEq]
    /\ eq = NoEq

NextEquipment ==
    \/ \E n \in Nodes, c \in Nodes : setParent(n, c)
    \/ \E n \in Nodes : destroy(n)
    \/ \E n \in Nodes : getCurrentEquipment(n)
    \/ \E c \in EqValues : setCurrentEquipment(Subject, c)

SpecEquipment == InitEquipment /\ [][NextEquipment]_vars

\* C32: a cached equipment of a node is changed by no call but an assignment
\* to currentEquipment of that node (not by setParent, not by destroy, on the
\* node or on an ancestor), a read returns the cached equipment when there is
\* one, whatever the ancestors now are, and a read that finds no equipment
\* ancestor leaves the cache undefined.
C32_EquipmentCacheKept ==
    [][\A n \in Nodes :
          /\ (currentEq[n] # NoEq /\ ~(call'.op = "setCurrentEquipment" /\ call'.node = n))
                => currentEq'[n] = currentEq[n]
          /\ (getCurrentEquipment(n) /\ currentEq[n] # NoEq) => eq' = currentEq[n]
          /\ (getCurrentEquipment(n) /\ currentEq[n] = NoEq /\ nearest(n) = NoEq)
                => (eq' = NoEq /\ currentEq'[n] = NoEq)]_vars

\* A read has returned the equipment it had found before, on a node that has
\* since been moved under a chain without that equipment.
C32_Witness ==
    /\ call.op = "getCurrentEquipment"
    /\ eq \in Nodes
    /\ eq = currentEq[call.node]
    /\ nearest(call.node) # eq

----------------------------------------------------------------------------
(* What getLocalBounds leaves of the node, checked under SpecBounds        *)

\* C33: a getLocalBounds() that returns leaves the node's parent and transform
\* as they were before the call, for a node with a parent and for one without,
\* and the rectangle it fills when it is given none is this._localBoundsRect,
\* not the rectangle getBounds() fills.
C33_LocalBoundsRestores ==
    [][\A n \in Nodes, raises \in BOOLEAN :
          (getLocalBounds(n, raises) /\ ~err') =>
              /\ parent'[n] = parent[n]
              /\ transform'[n] = transform[n]
              /\ (Allowed(n) => (rect' = "localBounds" /\ rect' # "bounds"))]_vars

\* getLocalBounds() has returned its own rectangle for a node that has a
\* parent and its own transform, both still in place.
C33_Witness ==
    /\ call.op = "getLocalBounds" /\ ~err
    /\ rect = "localBounds"
    /\ parent[call.node] \in Nodes
    /\ transform[call.node] = "own"
    /\ lastBoundsID[call.node] = BoundsID

----------------------------------------------------------------------------
(* Listeners added while emit iterates: emit and on of DisplayObject.js    *)

\* The handlers of the listeners, one more than are registered before an emit.
AddHandlers == Handlers \cup {"h"}

\* The place of the listener with handler fn in ls, 0 when there is none.
PlaceOf(ls, fn) ==
    IF HasFn(ls, fn) THEN CHOOSE k \in 1..Len(ls) : ls[k].fn = fn ELSE 0

\* One iteration of the loop of emit over listeners registered by on() (none
\* is a once listener, so that the array emit iterates stays the registered
\* one), in which the handler, when it is applied, calls
\* this.on(evt, fn, capture, priority): on() pushes onto the registered array
\* and sorts it in place, under the loop; fn = "undef" is a handler that
\* registers nothing.  em.origin keeps the array as it was when emit started,
\* em.calls the places in it of the listeners that were invoked (0 for a
\* listener registered since).
emitStepAdding(fn, capture, priority) ==
    /\ em.active
    /\ LET l == em.listeners[em.i]
           called == Fires(l, em.a1)
           more == em.i < em.length
           started == IF em.i = 1 THEN em.listeners ELSE em.origin
           stores == IF fn = "undef" THEN {events[em.evt]}
                     ELSE onStore(events[em.evt], fn, capture, priority)
       IN /\ ~l.once
          /\ IF Stopped(em.a1)
             THEN /\ fn = "undef"
                  /\ UNCHANGED events
                  /\ em' = [em EXCEPT !.active = FALSE, !.ret = "true", !.origin = started]
             ELSE /\ fn # "undef" => called
                  /\ \E st \in stores, p \in AfterHandler(em.a1, called) :
                        /\ events' = [events EXCEPT ![em.evt] = st]
                        /\ Total(events') <= MaxListeners
                        /\ em' = [em EXCEPT
                                    !.a1 = p,
                                    !.listeners = st.ls,
                                    !.origin = started,
                                    !.calls = IF called
                                              THEN Append(@, PlaceOf(started, l.fn)) ELSE @,
                                    !.stopped = IF called
                                                THEN Append(@, Stopped(em.a1)) ELSE @,
                                    !.i = em.i + 1,
                                    !.active = more,
                                    !.ret = IF more THEN "none" ELSE "true"]
    /\ UNCHANGED <<last, err, treeVars>>

\* An emitter without listeners.
InitAdding == Init

NextAdding ==
    \/ \E fn \in Handlers, c \in Tri, p \in Priorities : on(ReentrantEvent, fn, c, p)
    \/ \E a \in Payloads : emit(ReentrantEvent, a)
    \/ \E fn \in AddHandlers \cup {"undef"}, c \in Tri, p \in Priorities :
          emitStepAdding(fn, c, p)

SpecAdding == InitAdding /\ [][NextAdding]_vars

\* The number of times the listener at place k of the array emit started with
\* was invoked.
Invoked(k) == Cardinality({j \in 1..Len(em.calls) : em.calls[j] = k})

\* C34 (as claimed): once an emit over several listeners has returned without
\* stopImmediate having been set, every listener that was registered when it
\* started has been invoked at most once, and once when its capture flag
\* matches the payload, whatever listeners the handlers registered with on()
\* during the emit.
C34_AddingSkipsNoListener ==
    (EmitDone /\ ~Stopped(em.a1) /\ Len(em.origin) > 1) =>
        \A k \in 1..Len(em.origin) :
            /\ Invoked(k) <= 1
            /\ Fires(em.origin[k], em.a1) => Invoked(k) = 1

----------------------------------------------------------------------------
(* One assignment to mask, checked under SpecMask                          *)

\* C35: an assignment node.mask = value leaves the node's previous mask, when
\* it is another node than value, renderable and not flagged as a mask, and
\* leaves value, when it is a node (the previous mask or another), not
\* renderable and flagged as a mask.
C35_MaskAssignmentToggles ==
    [][\A n \in Nodes, value \in {Null} \cup Nodes :
          setMask(n, value) =>
              /\ (mask[n] # Null /\ mask[n] # value)
                    => (renderable'[mask[n]] /\ ~isMask'[mask[n]])
              /\ value # Null => (~renderable'[value] /\ isMask'[value])]_vars

\* A node has been given a mask, which is hidden and flagged, and a mask that
\* an assignment released, still the mask of that one, is renderable and not
\* flagged.
C35_Witness ==
    /\ call.op = "setMask"
    /\ \E m \in Nodes, old \in Nodes :
          /\ mask[call.node] = m /\ m # call.node /\ old # m /\ old # call.node
          /\ ~renderable[m] /\ isMask[m]
          /\ mask[m] = old
          /\ renderable[old] /\ ~isMask[old]

----------------------------------------------------------------------------
(* The temporary parent of getBounds, getLocalBounds, toGlobal and toLocal *)

\* The point the conversions are given.
ParentPoint == 0

\* The nodes toLocal converts from: none, or the first node, which has no
\* parent.
ParentFrom == {Null, 1}

\* Forests of nodes as their constructors leave them.
InitParent == InitPoint

NextParent ==
    \/ \E n \in Nodes, skipUpdate \in BOOLEAN : toGlobal(n, ParentPoint, skipUpdate)
    \/ \E n \in Nodes, from \in ParentFrom, skipUpdate \in BOOLEAN :
          toLocal(n, ParentPoint, from, skipUpdate)
    \/ \E n \in Nodes, skipUpdate \in BOOLEAN, raises \in BOOLEAN :
          getBounds(n, skipUpdate, raises)
    \/ \E n \in Nodes, raises \in BOOLEAN : getLocalBounds(n, raises)

SpecParent == InitParent /\ [][NextParent]_vars

\* C36: when getBounds, getLocalBounds, toGlobal or toLocal returns on a node
\* whose parent was null before the call, the parent of the node is null
\* again; so is the parent of the node toLocal converts from.
C36_TemporaryParentRemoved ==
    [][\A n \in Nodes :
          /\ (/\ parent[n] = Null
              /\ ~err'
              /\ call'.node = n
              /\ call'.op \in {"toGlobal", "toLocal", "getBounds", "getLocalBounds"})
                => parent'[n] = Null
          /\ (/\ n \in ParentFrom
              /\ parent[n] = Null
              /\ call'.op = "toLocal"
              /\ \E skipUpdate \in BOOLEAN :
                    toLocal(call'.node, ParentPoint, n, skipUpdate))
                => parent'[n] = Null]_vars

\* toLocal has returned for a node without parent, converting from another
\* node without parent, both updated under the temporary parent.
C36_Witness ==
    /\ call.op = "toLocal" /\ ~err
    /\ parent[call.node] = Null
    /\ updateID[call.node] > 0
    /\ \E m \in Nodes \ {call.node} : parent[m] = Null /\ updateID[m] > 0

----------------------------------------------------------------------------
(* What the refresh of getBounds, toGlobal and toLocal writes              *)

\* The point the conversions are given.
RefreshPoint == 0

\* Trees as in InitTree, the nodes sharing one alpha, no world alpha computed
\* yet.
InitRefresh == InitBounds

NextRefresh ==
    \/ \E n \in Nodes : updateTransform(n)
    \/ \E skipUpdate \in BOOLEAN : toGlobal(Subject, RefreshPoint, skipUpdate)
    \/ \E from \in {Null} \cup Nodes, skipUpdate \in BOOLEAN :
          toLocal(Subject, RefreshPoint, from, skipUpdate)
    \/ \E skipUpdate \in BOOLEAN : getBounds(Subject, skipUpdate, FALSE)

SpecRefresh == InitRefresh /\ [][NextRefresh]_vars

\* The proper ancestors of n keep their worldAlpha and their version counter.
AncestorsKept(n) ==
    \A m \in Chain(n) \ {n} :
        worldAlpha'[m] = worldAlpha[m] /\ updateID'[m] = updateID[m]

\* n has the worldAlpha of one update under the worldAlpha its parent had
\* before the call, and its version counter has grown by one.
OwnUpdated(n) ==
    /\ worldAlpha'[n] = alpha[n] * (IF parent[n] \in Nodes THEN worldAlpha[parent[n]]
                                    ELSE tempDisplayObjectParent.worldAlpha)
    /\ updateID'[n] = updateID[n] + 1

\* The nodes outside kept keep their worldAlpha and their version counter.
OthersKept(kept) ==
    \A m \in Nodes \ kept :
        worldAlpha'[m] = worldAlpha[m] /\ updateID'[m] = updateID[m]

\* C37 (as claimed): getBounds, toGlobal and toLocal with skipUpdate false on
\* node n leave the worldAlpha and the version counter of every proper
\* ancestor of n as they were, and modify only the worldAlpha of n (n.alpha
\* times the worldAlpha its parent had) and the version counter of n (+1).
C37_RefreshWritesOnlyNode ==
    [][\A n \in {Subject} :
          (\/ toGlobal(n, RefreshPoint, FALSE)
           \/ getBounds(n, FALSE, FALSE)
           \/ \E from \in {Null} \cup Nodes : toLocal(n, RefreshPoint, from, FALSE))
             => (AncestorsKept(n) /\ OwnUpdated(n) /\ OthersKept({n}))]_vars

\* C37 (amended): the same for getBounds, toGlobal and toLocal without a from
\* node; toLocal with a from node that is neither n nor an ancestor of n leaves
\* the ancestors of n as they were and n updated in the same way, and modifies
\* besides only the worldAlpha and the version counter of the from node, which
\* from.toGlobal updates.
C37_RefreshWritesNodeAndFrom ==
    [][\A n \in {Subject} :
          /\ (\/ toGlobal(n, RefreshPoint, FALSE)
              \/ getBounds(n, FALSE, FALSE)
              \/ toLocal(n, RefreshPoint, Null, FALSE))
                => (AncestorsKept(n) /\ OwnUpdated(n) /\ OthersKept({n}))
          /\ \A from \in Nodes \ Chain(n) :
                toLocal(n, RefreshPoint, from, FALSE)
                   => /\ AncestorsKept(n) /\ OwnUpdated(n) /\ OthersKept({n, from})
                      /\ updateID'[from] = updateID[from] + 1]_vars

\* toLocal has returned for a node whose parent has a worldAlpha that is not
\* the product of the alphas above it: the node has its alpha times that
\* worldAlpha, and a from node outside its chain has been updated too.
C37_Witness ==
    /\ call.op = "toLocal" /\ call.node = Subject
    /\ parent[Subject] \in Nodes
    /\ alpha[Subject] = 2
    /\ worldAlpha[parent[Subject]] = 1
    /\ worldAlpha[Subject] = 2
    /\ updateID[Subject] = 1
    /\ updateID[parent[Subject]] = 0
    /\ \E m \in Nodes \ Chain(Subject) : updateID[m] = 1 /\ worldAlpha[m] = 2

----------------------------------------------------------------------------
(* has and the shape of the registry, checked under Spec                   *)

\* has(eventType): false when this._events[evt] is absent, true otherwise
\* (a listener object and an array, empty or not, are both truthy).
has(event) == events[event].kind # "none"

\* C38: after any sequence of on, once, removeListener and emit, has(event) is
\* true if and only if a listener is registered for the event; the store of an
\* event is absent when it has no listener, one listener object when it has
\* one, and an array only when it has two or more, never an empty array.
C38_HasIffRegistered ==
    \A e \in EventNames :
        /\ has(e) <=> Len(events[e].ls) >= 1
        /\ events[e].kind = "none" <=> Len(events[e].ls) = 0
        /\ events[e].kind = "single" <=> Len(events[e].ls) = 1
        /\ events[e].kind = "list" <=> Len(events[e].ls) >= 2

\* An emit over two listeners has returned, the once listener among them was
\* removed by it and one listener object is left; has() is true for that
\* event and false for an event without listener.
C38_Witness ==
    /\ EmitDone
    /\ Len(em.listeners) = 2
    /\ \E k \in 1..2 : em.listeners[k].once
    /\ events[em.evt].kind = "single"
    /\ has(em.evt)
    /\ \E e \in EventNames : ~has(e)

----------------------------------------------------------------------------
(* Rectangle.prototype.fit of src/src/core/math/shapes/Rectangle.js        *)

MaxCoord == 2

\* Rectangles with integer coordinates and sizes that are not negative.
FitRects ==
    [x : -1..MaxCoord, y : 0..1, width : 0..MaxCoord, height : 0..1]

\* if (size < 0) size = 0
NotNegative(size) == IF size < 0 THEN 0 ELSE size

\* this after this.fit(rectangle), the four tests in the order of the code
fit(this, container) ==
    LET left == IF this.x < container.x
                THEN [this EXCEPT !.width = NotNegative(this.width + this.x),
                                  !.x = container.x]
                ELSE this
        top == IF left.y < container.y
               THEN [left EXCEPT !.height = NotNegative(left.height + left.y),
                                 !.y = container.y]
               ELSE left
        right == IF top.x + top.width > container.x + container.width
                 THEN [top EXCEPT !.width = NotNegative(container.width - top.x)]
                 ELSE top
        bottom == IF right.y + right.height > container.y + container.height
                  THEN [right EXCEPT !.height = NotNegative(container.height - right.y)]
                  ELSE right
    IN bottom

\* self.fit(rectangle)
fitCall ==
    /\ self' = fit(self, rectangle)
    /\ call' = [op |-> "fit", node |-> Null, dead |-> FALSE]
    /\ NoResult
    /\ err' = FALSE
    /\ UNCHANGED rectangle
    /\ UNCHANGED <<evVars, parent, alpha, worldAlpha, updateID, position,
                   worldTransform, pass, lifeVars, cacheVars, localBounds, maskVars,
                   listVars, pointVars, ropeVars, eqVars>>

\* Two rectangles, fit not called yet.
InitFit ==
    /\ EmitterIdle /\ CacheIdle /\ ViewIdle /\ LifeFields /\ TreeFields
    /\ localBounds = [n \in Nodes |-> EmptyRect]
    /\ RopeIdle /\ EqIdle
    /\ self \in FitRects
    /\ rectangle \in FitRects

NextFit == fitCall

SpecFit == InitFit /\ [][NextFit]_vars

\* C39 (as claimed): after r.fit(c), for rectangles with integer coordinates
\* and sizes that are not negative, r lies inside c and the width and the
\* height of r are not negative.
C39_FitInsideContainer ==
    call.op = "fit" =>
        /\ self.x >= rectangle.x
        /\ self.y >= rectangle.y
        /\ self.x + self.width <= rectangle.x + rectangle.width
        /\ self.y + self.height <= rectangle.y + rectangle.height
        /\ self.width >= 0
        /\ self.height >= 0

====
